---- MODULE Spec2Model ----
(***************************************************************************)
(* Model of the trace/log reconciliation core of the log-trace visualizer  *)
(* panel (src/src/utils/traceUtils.ts): span ingestion with time-unit      *)
(* normalisation, trace tree construction, log ingestion and log-to-span   *)
(* correlation, and of the expanded-rows state of the timeline             *)
(* (src/src/components/TraceTimeline.tsx).                                 *)
(*                                                                         *)
(* Span objects live in the sequence `spans` (the array handed to          *)
(* buildTraceTree); a reference to a span is its index in that sequence,   *)
(* so two spans with the same spanId stay distinct objects.                *)
(***************************************************************************)
EXTENDS Integers, Sequences, FiniteSets, TLC

VARIABLES
  pc,            \* position of the caller in the pipeline
  frames,        \* data.series: the tabular frames handed to the parsers
  options,       \* panel options: durationUnit, lokiTraceIdField, lokiSpanIdField
  multiplier,    \* durationMultiplier computed by the last parseTraceData
  spans,         \* the Span objects (children and depth are mutated in place)
  trace,         \* the Trace returned by buildTraceTree / parseTraceData
  logs,          \* the LogLine[] returned by parseLogData / handed to the matcher
  matched,       \* the SpanWithLogs[] returned by matchLogsToSpans
  severity,      \* the LogSeverity returned by getLogSeverity
  serviceColorMap,   \* the module-level Map of getServiceColor, in insertion order
  colorCall,     \* argument and result of the last getServiceColor call
  expandedSpans,     \* TraceTimeline state: the Set of expanded spanIds
  prevTraceIdRef,    \* TraceTimeline ref: traceId seen by the last initialisation
  collapsedByDefault,   \* TraceTimeline prop (panel option)
  threw          \* TRUE when the last call ended in an uncaught exception

vars == <<pc, frames, options, multiplier, spans, trace, logs, matched, severity,
          serviceColorMap, colorCall, expandedSpans, prevTraceIdRef,
          collapsedByDefault, threw>>

\* the state of the colour cache
colorVars == <<serviceColorMap, colorCall>>

\* the state and the option of the TraceTimeline component
timelineVars == <<expandedSpans, prevTraceIdRef, collapsedByDefault>>

----------------------------------------------------------------------------
(* Bounds of the model *)

MaxSpans == 3      \* longest span sequence handed to buildTraceTree
StackLimit == 6    \* nested calls the engine allows before RangeError
MaxLogs == 1       \* longest log sequence handed to matchLogsToSpans
MaxRows == 2       \* most rows in one frame
MaxFrames == 2     \* most frames in a data.series built from CollectionFrames
MaxSeverityLogs == 2   \* longest log list handed to getLogSeverity
MaxCached == 10    \* most services in the colour cache before the calls observed

----------------------------------------------------------------------------
(* JavaScript values *)

Undefined == "$undefined"
Null == [isNull |-> TRUE]
NoDepth == -1      \* Span.depth not set
NoSpan == 0        \* rootSpan === undefined

\* truthiness of an optional string: neither undefined nor ''
HasValue(s) == s # Undefined /\ s # ""

Range(f) == {f[i] : i \in DOMAIN f}

\* Numbers are kept exactly as v * 10^e, so that the 1/1000 multiplier and
\* timestamp / 1000 lose nothing.
RECURSIVE Pow10(_)
Pow10(k) == IF k <= 0 THEN 1 ELSE 10 * Pow10(k - 1)

Num(v) == [v |-> v, e |-> 0]
MinExp(a, b) == IF a.e < b.e THEN a.e ELSE b.e
NumAlign(a, e) == a.v * Pow10(a.e - e)
NumLeq(a, b) == NumAlign(a, MinExp(a, b)) <= NumAlign(b, MinExp(a, b))
NumEq(a, b) == NumAlign(a, MinExp(a, b)) = NumAlign(b, MinExp(a, b))
NumAdd(a, b) == [v |-> NumAlign(a, MinExp(a, b)) + NumAlign(b, MinExp(a, b)), e |-> MinExp(a, b)]
NumSub(a, b) == [v |-> NumAlign(a, MinExp(a, b)) - NumAlign(b, MinExp(a, b)), e |-> MinExp(a, b)]
NumMul(a, b) == [v |-> a.v * b.v, e |-> a.e + b.e]

\* Math.min(...xs) / Math.max(...xs) over a non-empty sequence of numbers
RECURSIVE MathMin(_)
MathMin(xs) ==
  IF Len(xs) = 1 THEN xs[1]
  ELSE LET m == MathMin(Tail(xs)) IN IF NumLeq(xs[1], m) THEN xs[1] ELSE m

RECURSIVE MathMax(_)
MathMax(xs) ==
  IF Len(xs) = 1 THEN xs[1]
  ELSE LET m == MathMax(Tail(xs)) IN IF NumLeq(m, xs[1]) THEN xs[1] ELSE m

----------------------------------------------------------------------------
(* buildTraceTree *)

\* first forEach: span.children = []; spanMap.set(span.spanId, span)
ResetChildren(ss) == [i \in DOMAIN ss |-> [ss[i] EXCEPT !.children = <<>>]]

\* spanMap.get(id): Map.set overwrites, so the last span with that id; NoSpan if none
SpanMapGet(ss, id) ==
  LET hits == {i \in DOMAIN ss : ss[i].spanId = id}
  IN IF hits = {} THEN NoSpan ELSE CHOOSE i \in hits : \A j \in hits : j <= i

\* services.add(name) on an insertion-ordered Set
SetAdd(seq, x) == IF x \in Range(seq) THEN seq ELSE Append(seq, x)

\* variant of PushChild that pushes into every span carrying the parent's id
PushChildEveryHolder(ss, parent, i) ==
  [j \in DOMAIN ss |->
     IF ss[j].spanId = ss[parent].spanId
       THEN [ss[j] EXCEPT !.children = Append(@, i)]
       ELSE ss[j]]

\* parent.children.push(span)
PushChild(ss, parent, i) == [ss EXCEPT ![parent].children = Append(@, i)]

\* variant of OrphanRoot in which every orphan takes the root
OrphanRootLastWins(rootSpan, i) == i

\* the root after the orphan at index i was seen: if (!rootSpan) rootSpan = span
OrphanRoot(rootSpan, i) == IF rootSpan = NoSpan THEN i ELSE rootSpan

\* variant of LinkSpan in which a parentless span takes the root only when
\* none is set yet (first-wins)
LinkSpanFirstWins(st, i) ==
  LET span == st.spans[i]
      svc == SetAdd(st.services, span.serviceName)
  IN IF ~HasValue(span.parentSpanId)
       THEN [st EXCEPT !.services = svc,
                       !.rootSpan = IF st.rootSpan = NoSpan THEN i ELSE @]
       ELSE LET parent == SpanMapGet(st.spans, span.parentSpanId)
            IN IF parent # NoSpan
                 THEN [st EXCEPT !.services = svc,
                                 !.spans = PushChild(@, parent, i)]
                 ELSE [st EXCEPT !.services = svc, !.rootSpan = OrphanRoot(@, i)]

\* body of the second forEach for the span at index i
LinkSpan(st, i) ==
  LET span == st.spans[i]
      svc == SetAdd(st.services, span.serviceName)
  IN IF ~HasValue(span.parentSpanId)
       THEN [st EXCEPT !.services = svc, !.rootSpan = i]
       ELSE LET parent == SpanMapGet(st.spans, span.parentSpanId)
            IN IF parent # NoSpan
                 THEN [st EXCEPT !.services = svc,
                                 !.spans = PushChild(@, parent, i)]
                 ELSE [st EXCEPT !.services = svc, !.rootSpan = OrphanRoot(@, i)]

\* the second forEach, spans i..Len in input order
RECURSIVE LinkSpans(_, _)
LinkSpans(st, i) ==
  IF i > Len(st.spans) THEN st ELSE LinkSpans(LinkSpan(st, i), i + 1)

\* calculateDepth(span, depth) with `room` nested calls left on the stack;
\* ok = FALSE when the recursion exceeded the stack (RangeError)
RECURSIVE CalculateDepth(_, _, _, _)
RECURSIVE CalculateDepthChildren(_, _, _, _, _)
\* variant of CalculateDepth that hands depth, not depth + 1, to the children
CalculateDepthSameLevel(ss, span, depth, room) ==
  IF room = 0 THEN [ok |-> FALSE, spans |-> ss]
  ELSE CalculateDepthChildren([ss EXCEPT ![span].depth = depth], span, 1, depth, room - 1)

CalculateDepth(ss, span, depth, room) ==
  IF room = 0 THEN [ok |-> FALSE, spans |-> ss]
  ELSE CalculateDepthChildren([ss EXCEPT ![span].depth = depth], span, 1, depth + 1, room - 1)

CalculateDepthChildren(ss, span, k, depth, room) ==
  IF k > Len(ss[span].children) THEN [ok |-> TRUE, spans |-> ss]
  ELSE LET r == CalculateDepth(ss, ss[span].children[k], depth, room)
       IN IF ~r.ok THEN r ELSE CalculateDepthChildren(r.spans, span, k + 1, depth, room)

SpanEnd(s) == NumAdd(s.startTime, s.duration)

\* variant of TraceStartTime that only looks at the spans given a depth
TraceStartTimeReachableOnly(ss) ==
  LET reached == SelectSeq(ss, LAMBDA s : s.depth # NoDepth)
  IN MathMin([i \in DOMAIN reached |-> reached[i].startTime])

\* Math.min(...spans.map((s) => s.startTime))
TraceStartTime(ss) == MathMin([i \in DOMAIN ss |-> ss[i].startTime])

\* Math.max(...spans.map((s) => s.startTime + s.duration))
TraceEndTime(ss) == MathMax([i \in DOMAIN ss |-> SpanEnd(ss[i])])

\* variant of FallbackRoot that takes the first span whenever there is one
FallbackRootAlwaysFirst(rootSpan, ss) == IF Len(ss) > 0 THEN 1 ELSE rootSpan

\* if (!rootSpan && spans.length > 0) rootSpan = spans[0]
FallbackRoot(rootSpan, ss) == IF rootSpan = NoSpan /\ Len(ss) > 0 THEN 1 ELSE rootSpan

\* buildTraceTree(ss): the mutated span objects, the returned Trace, or threw
BuildTraceTree(ss) ==
  LET linked == LinkSpans([spans |-> ResetChildren(ss), rootSpan |-> NoSpan, services |-> <<>>], 1)
      rootSpan == FallbackRoot(linked.rootSpan, ss)
      deep == IF rootSpan # NoSpan
                THEN CalculateDepth(linked.spans, rootSpan, 0, StackLimit)
                ELSE [ok |-> TRUE, spans |-> linked.spans]
  IN IF ~deep.ok \/ Len(ss) = 0
       THEN [threw |-> TRUE, spans |-> deep.spans, trace |-> Null]
       ELSE LET startTime == TraceStartTime(deep.spans)
                endTime == TraceEndTime(deep.spans)
            IN [threw |-> FALSE,
                spans |-> deep.spans,
                trace |-> [traceId |-> IF HasValue(deep.spans[rootSpan].traceId)
                                         THEN deep.spans[rootSpan].traceId
                                         ELSE deep.spans[1].traceId,
                           rootSpan |-> rootSpan,
                           startTime |-> startTime,
                           endTime |-> endTime,
                           duration |-> NumSub(endTime, startTime),
                           services |-> linked.services]]

----------------------------------------------------------------------------
(* flattenSpans *)

\* flattenSpans(span) with `room` nested calls left; ok = FALSE on RangeError
RECURSIVE FlattenSpans(_, _, _)
RECURSIVE FlattenChildren(_, _, _, _, _)
\* variant of FlattenSpans that lists a span after its descendants
FlattenSpansChildrenFirst(ss, span, room) ==
  IF span = NoSpan THEN [ok |-> TRUE, result |-> <<>>]
  ELSE IF room = 0 THEN [ok |-> FALSE, result |-> <<>>]
  ELSE LET r == FlattenChildren(ss, span, 1, <<>>, room - 1)
       IN IF ~r.ok THEN r ELSE [ok |-> TRUE, result |-> r.result \o <<span>>]

FlattenSpans(ss, span, room) ==
  IF span = NoSpan THEN [ok |-> TRUE, result |-> <<>>]
  ELSE IF room = 0 THEN [ok |-> FALSE, result |-> <<>>]
  ELSE FlattenChildren(ss, span, 1, <<span>>, room - 1)

FlattenChildren(ss, span, k, result, room) ==
  IF k > Len(ss[span].children) THEN [ok |-> TRUE, result |-> result]
  ELSE LET r == FlattenSpans(ss, ss[span].children[k], room)
       IN IF ~r.ok THEN r ELSE FlattenChildren(ss, span, k + 1, result \o r.result, room)

----------------------------------------------------------------------------
(* matchLogsToSpans *)

BufferMicros == 1000   \* const buffer = 1000

\* x / 1000, exactly
DivByThousand(x) == [v |-> x.v, e |-> x.e - 3]

\* variant of InWindow with strict comparisons
InWindowExclusive(log, span) ==
  LET logTimeMicro == DivByThousand(log.timestamp)
      spanStart == span.startTime
      spanEnd == NumAdd(span.startTime, span.duration)
      buffer == Num(BufferMicros)
  IN ~NumLeq(logTimeMicro, NumSub(spanStart, buffer))
     /\ ~NumLeq(NumAdd(spanEnd, buffer), logTimeMicro)

\* the time-window test of the filter callback
InWindow(log, span) ==
  LET logTimeMicro == DivByThousand(log.timestamp)
      spanStart == span.startTime
      spanEnd == NumAdd(span.startTime, span.duration)
      buffer == Num(BufferMicros)
  IN NumLeq(NumSub(spanStart, buffer), logTimeMicro)
     /\ NumLeq(logTimeMicro, NumAdd(spanEnd, buffer))

\* variant of LogMatches in which a spanId match must also pass the window
LogMatchesIdWithinWindow(log, span) ==
  IF HasValue(log.spanId) /\ log.spanId = span.spanId THEN InWindow(log, span)
  ELSE IF HasValue(log.traceId) /\ log.traceId = span.traceId THEN InWindow(log, span)
  ELSE FALSE

\* the filter callback: does `log` belong to `span`
LogMatches(log, span) ==
  IF HasValue(log.spanId) /\ log.spanId = span.spanId THEN TRUE
  ELSE IF HasValue(log.traceId) /\ log.traceId = span.traceId THEN InWindow(log, span)
  ELSE FALSE

\* logs.filter(pred), keeping input order
RECURSIVE FilterLogs(_, _)
FilterLogs(ls, span) ==
  IF ls = <<>> THEN <<>>
  ELSE IF LogMatches(Head(ls), span)
         THEN <<Head(ls)>> \o FilterLogs(Tail(ls), span)
         ELSE FilterLogs(Tail(ls), span)

\* matchLogsToSpans(trace, logs): one SpanWithLogs per flattened span
\* ({...span, logs, isExpanded: false}; ref is the index of the source span)
MatchLogsToSpans(ss, tr, ls) ==
  LET flat == FlattenSpans(ss, tr.rootSpan, StackLimit)
  IN IF ~flat.ok THEN [threw |-> TRUE, result |-> <<>>]
     ELSE [threw |-> FALSE,
           result |-> [k \in DOMAIN flat.result |->
                         [ref |-> flat.result[k],
                          span |-> ss[flat.result[k]],
                          logs |-> FilterLogs(ls, ss[flat.result[k]]),
                          isExpanded |-> FALSE]]]

----------------------------------------------------------------------------
(* Strings: toLowerCase and includes *)

UpperLetters == <<"A", "B", "C", "D", "E", "F", "G", "H", "I", "J", "K", "L", "M",
                  "N", "O", "P", "Q", "R", "S", "T", "U", "V", "W", "X", "Y", "Z">>
LowerLetters == <<"a", "b", "c", "d", "e", "f", "g", "h", "i", "j", "k", "l", "m",
                  "n", "o", "p", "q", "r", "s", "t", "u", "v", "w", "x", "y", "z">>

LowerChar(c) ==
  IF \E k \in DOMAIN UpperLetters : UpperLetters[k] = c
    THEN LowerLetters[CHOOSE k \in DOMAIN UpperLetters : UpperLetters[k] = c]
    ELSE c

\* s.toLowerCase()
RECURSIVE ToLowerCase(_)
ToLowerCase(s) ==
  IF s = "" THEN "" ELSE LowerChar(SubSeq(s, 1, 1)) \o ToLowerCase(SubSeq(s, 2, Len(s)))

\* s.includes(p)
Includes(s, p) == \E i \in 1..(Len(s) - Len(p) + 1) : SubSeq(s, i, i + Len(p) - 1) = p

\* f.name?.toLowerCase().includes(n) for some n of names
NameIncludesAny(name, names) == \E n \in names : Includes(ToLowerCase(name), n)

\* array.find(pred): of the indices that satisfy pred, the first; 0 if none
FirstIndex(hits) == IF hits = {} THEN 0 ELSE CHOOSE k \in hits : \A j \in hits : k <= j

\* String(v || '')
StringOrEmpty(v) == IF HasValue(v) THEN v ELSE ""

\* String(v || 'unknown')
StringOrUnknown(v) == IF HasValue(v) THEN v ELSE "unknown"


----------------------------------------------------------------------------
(* getServiceColor *)

SERVICE_COLORS ==
  <<"#7B61FF", "#3D71D9", "#FF6B6B", "#4ECB71", "#FFBE0B",
    "#00D4AA", "#FF8042", "#00C9FF", "#F72585", "#B5179E">>

\* no call yet
NoColorCall == [name |-> Undefined, color |-> Undefined]

\* serviceColorMap.has(name), .get(name), .set(name, color) on a Map kept as
\* the sequence of its entries in insertion order
MapHas(map, name) == \E k \in DOMAIN map : map[k].name = name
MapGet(map, name) == map[CHOOSE k \in DOMAIN map : map[k].name = name].color
MapSet(map, name, color) ==
  IF MapHas(map, name)
    THEN [k \in DOMAIN map |-> IF map[k].name = name THEN [name |-> name, color |-> color]
                                ELSE map[k]]
    ELSE Append(map, [name |-> name, color |-> color])

\* variant of GetServiceColor that computes and stores a colour on every call
GetServiceColorRecomputed(map, serviceName) ==
  LET color == SERVICE_COLORS[(Len(map) % Len(SERVICE_COLORS)) + 1]
  IN [map |-> MapSet(map, serviceName, color), color |-> color]

\* getServiceColor(serviceName): the Map afterwards and the colour returned
GetServiceColor(map, serviceName) ==
  IF MapHas(map, serviceName)
    THEN [map |-> map, color |-> MapGet(map, serviceName)]
    ELSE LET color == SERVICE_COLORS[(Len(map) % Len(SERVICE_COLORS)) + 1]
         IN [map |-> MapSet(map, serviceName, color), color |-> color]
----------------------------------------------------------------------------
(* getLogSeverity *)

\* log.level?.toLowerCase()
LevelLowerCase(log) == IF log.level = Undefined THEN Undefined ELSE ToLowerCase(log.level)

\* variant of IsErrorLog that looks at the structured level only
IsErrorLogByLevelOnly(log) ==
  LET level == LevelLowerCase(log)
  IN level = "error" \/ level = "critical" \/ level = "fatal"

\* the condition under which the loop returns 'error' at once
IsErrorLog(log) ==
  LET logLine == ToLowerCase(log.line)
      level == LevelLowerCase(log)
  IN \/ level = "error" \/ level = "critical" \/ level = "fatal"
     \/ Includes(logLine, "error") \/ Includes(logLine, "exception")
     \/ Includes(logLine, "critical") \/ Includes(logLine, "fatal")
     \/ Includes(logLine, "crit")

\* variant of SeverityAfterLoop that ranks info above warning
SeverityAfterLoopInfoFirst(hasWarning, hasInfo, hasDebug) ==
  IF hasInfo THEN "info"
  ELSE IF hasWarning THEN "warning"
  ELSE IF hasDebug THEN "debug"
  ELSE "info"

\* the returns after the loop
SeverityAfterLoop(hasWarning, hasInfo, hasDebug) ==
  IF hasWarning THEN "warning"
  ELSE IF hasInfo THEN "info"
  ELSE IF hasDebug THEN "debug"
  ELSE "info"

\* the for loop from log k on, with the three flags as they stand
RECURSIVE SeverityLoop(_, _, _, _, _)
SeverityLoop(ls, k, hasWarning, hasInfo, hasDebug) ==
  IF k > Len(ls) THEN SeverityAfterLoop(hasWarning, hasInfo, hasDebug)
  ELSE LET log == ls[k]
           logLine == ToLowerCase(log.line)
           level == LevelLowerCase(log)
       IN IF IsErrorLog(log) THEN "error"
          ELSE SeverityLoop(ls, k + 1,
                 hasWarning \/ level = "warn" \/ level = "warning" \/ Includes(logLine, "warn"),
                 hasInfo \/ level = "info",
                 hasDebug \/ level = "debug" \/ level = "trace")

\* getLogSeverity(logs)
GetLogSeverity(ls) ==
  IF ls = Undefined THEN "none"
  ELSE IF Len(ls) = 0 THEN "none"
  ELSE SeverityLoop(ls, 1, FALSE, FALSE, FALSE)

----------------------------------------------------------------------------
(* parseTraceData *)

SampleLimit == 50          \* Math.min(50, length)
NanoThreshold == 1000000000   \* median >= 1e9
MicroThreshold == 1000000     \* median >= 1e6
MilliThreshold == 1000        \* median >= 1e3

\* the predicate of frames.find: a trace-id-named and a span-id-named field
IsTraceFrame(frame) ==
  /\ \E k \in DOMAIN frame.fields : NameIncludesAny(frame.fields[k].name, {"traceid", "trace_id"})
  /\ \E k \in DOMAIN frame.fields : NameIncludesAny(frame.fields[k].name, {"spanid", "span_id"})

\* variant of FindTraceFrame that takes the first qualifying frame that also
\* has a start-time and a duration field
FindTraceFrameComplete(fs) ==
  FirstIndex({k \in DOMAIN fs :
    /\ IsTraceFrame(fs[k])
    /\ \E f \in DOMAIN fs[k].fields :
         NameIncludesAny(fs[k].fields[f].name, {"starttime", "start_time"})
    /\ \E f \in DOMAIN fs[k].fields : NameIncludesAny(fs[k].fields[f].name, {"duration"})})

\* frames.find(...): index of the first qualifying frame, 0 if none
FindTraceFrame(fs) == FirstIndex({k \in DOMAIN fs : IsTraceFrame(fs[k])})

\* getField(names): names are lower-cased before the substring test
GetField(frame, names) ==
  FirstIndex({k \in DOMAIN frame.fields :
                NameIncludesAny(frame.fields[k].name, {ToLowerCase(n) : n \in names})})

\* samples.sort((a, b) => a - b) on numbers: insert x into a sorted sequence
RECURSIVE InsertSorted(_, _)
InsertSorted(sorted, x) ==
  IF sorted = <<>> THEN <<x>>
  ELSE IF x < Head(sorted) THEN <<x>> \o sorted
  ELSE <<Head(sorted)>> \o InsertSorted(Tail(sorted), x)

RECURSIVE SortNumbers(_)
SortNumbers(xs) == IF xs = <<>> THEN <<>> ELSE InsertSorted(SortNumbers(Tail(xs)), Head(xs))

\* the positive values among the first min(50, length) durations, sorted
DurationSamples(values, length) ==
  LET n == IF length < SampleLimit THEN length ELSE SampleLimit
  IN SortNumbers(SelectSeq(SubSeq(values, 1, n), LAMBDA v : v > 0))

\* the median as the pair of middle samples: (lo + hi) / 2, lo = hi when the
\* number of samples is odd
Median(samples) ==
  LET mid == Len(samples) \div 2
  IN IF Len(samples) % 2 = 1
       THEN [lo |-> samples[mid + 1], hi |-> samples[mid + 1]]
       ELSE [lo |-> samples[mid], hi |-> samples[mid + 1]]

\* median >= t, i.e. (lo + hi) / 2 >= t
MedianAtLeast(m, t) == m.lo - t >= t - m.hi

\* variant of AutoMultiplier with every class shifted by one unit
AutoMultiplierShifted(m) ==
  IF MedianAtLeast(m, NanoThreshold) THEN [v |-> 1, e |-> 0]
  ELSE IF MedianAtLeast(m, MicroThreshold) THEN [v |-> 1, e |-> 3]
  ELSE IF MedianAtLeast(m, MilliThreshold) THEN [v |-> 1, e |-> 6]
  ELSE [v |-> 1, e |-> 6]

\* the magnitude heuristic: durationMultiplier for a median
AutoMultiplier(m) ==
  IF MedianAtLeast(m, NanoThreshold) THEN [v |-> 1, e |-> -3]
  ELSE IF MedianAtLeast(m, MicroThreshold) THEN [v |-> 1, e |-> 0]
  ELSE IF MedianAtLeast(m, MilliThreshold) THEN [v |-> 1, e |-> 3]
  ELSE [v |-> 1, e |-> 6]

\* durationMultiplier for the unit option and the duration column
DurationMultiplier(unit, values, length) ==
  IF unit = "auto"
    THEN LET samples == DurationSamples(values, length)
         IN IF Len(samples) > 0 THEN AutoMultiplier(Median(samples)) ELSE Num(1)
  ELSE IF unit = "milliseconds" THEN [v |-> 1, e |-> 3]
  ELSE IF unit = "seconds" THEN [v |-> 1, e |-> 6]
  ELSE Num(1)

\* the Span pushed for row i of the trace frame (tags, which no later stage
\* reads, are left out)
ParsedSpan(frame, cols, m, i) ==
  [traceId |-> frame.fields[cols.traceId].values[i],
   spanId |-> frame.fields[cols.spanId].values[i],
   parentSpanId |-> IF cols.parentSpanId # 0
                      THEN StringOrEmpty(frame.fields[cols.parentSpanId].values[i])
                      ELSE Undefined,
   operationName |-> IF cols.operationName # 0
                       THEN StringOrUnknown(frame.fields[cols.operationName].values[i])
                       ELSE "unknown",
   serviceName |-> IF cols.serviceName # 0
                     THEN StringOrUnknown(frame.fields[cols.serviceName].values[i])
                     ELSE "unknown",
   startTime |-> NumMul(Num(frame.fields[cols.startTime].values[i]), m),
   duration |-> NumMul(Num(frame.fields[cols.duration].values[i]), m),
   children |-> <<>>,
   depth |-> NoDepth]

\* the columns parseTraceData resolves in the trace frame (0: not found)
TraceColumns(frame) ==
  [traceId |-> GetField(frame, {"traceid", "trace_id"}),
   spanId |-> GetField(frame, {"spanid", "span_id"}),
   parentSpanId |-> GetField(frame, {"parentspanid", "parent_span_id", "parentSpanId"}),
   operationName |-> GetField(frame, {"operationname", "operation_name", "name"}),
   serviceName |-> GetField(frame, {"servicename", "service_name", "service"}),
   startTime |-> GetField(frame, {"starttime", "start_time", "startTime"}),
   duration |-> GetField(frame, {"duration"})]

\* parseTraceData(fs, unit): the Trace or null, the span objects it created,
\* the multiplier it used, and whether it threw
ParseTraceData(fs, unit) ==
  LET t == FindTraceFrame(fs)
      none == [threw |-> FALSE, trace |-> Null, spans |-> <<>>, multiplier |-> Num(1)]
  IN IF t = 0 THEN none
     ELSE LET frame == fs[t]
              cols == TraceColumns(frame)
          IN IF cols.traceId = 0 \/ cols.spanId = 0 \/ cols.startTime = 0 \/ cols.duration = 0
               THEN none
               ELSE LET m == DurationMultiplier(unit, frame.fields[cols.duration].values, frame.length)
                        parsed == [i \in 1..frame.length |-> ParsedSpan(frame, cols, m, i)]
                    IN IF Len(parsed) = 0
                         THEN [none EXCEPT !.multiplier = m]
                         ELSE LET built == BuildTraceTree(parsed)
                              IN [threw |-> built.threw, trace |-> built.trace,
                                  spans |-> built.spans, multiplier |-> m]

----------------------------------------------------------------------------
(* parseLogData *)

\* a || b on optional strings
JsOr(a, b) == IF HasValue(a) THEN a ELSE b

\* variant of LabelGet that finds no key
LabelGetNothing(labels, key) == Undefined

\* labels[key]
LabelGet(labels, key) == IF key \in DOMAIN labels THEN labels[key] ELSE Undefined

\* variant of ParseLogLevel that accepts the exact level names only
ParseLogLevelExact(level) ==
  IF ~HasValue(level) THEN "info"
  ELSE LET l == ToLowerCase(level)
       IN IF l \in {"error", "warn", "debug", "trace"} THEN l ELSE "info"

\* parseLogLevel(level)
ParseLogLevel(level) ==
  IF ~HasValue(level) THEN "info"
  ELSE LET l == ToLowerCase(level)
       IN IF Includes(l, "err") \/ Includes(l, "fatal") \/ Includes(l, "critical") THEN "error"
          ELSE IF Includes(l, "warn") THEN "warn"
          ELSE IF Includes(l, "debug") THEN "debug"
          ELSE IF Includes(l, "trace") THEN "trace"
          ELSE "info"

\* the columns parseLogData resolves in one frame (0: not found)
LogColumns(frame, customTraceIdField, customSpanIdField) ==
  LET name(k) == frame.fields[k].name
      fields == DOMAIN frame.fields
  IN [time |-> FirstIndex({k \in fields :
                  \/ NameIncludesAny(name(k), {"time", "ts", "timestamp"})
                  \/ frame.fields[k].type = "time"}),
      line |-> FirstIndex({k \in fields :
                  ToLowerCase(name(k)) \in {"line", "message", "body", "content", "log"}}),
      labels |-> FirstIndex({k \in fields : NameIncludesAny(name(k), {"label"})}),
      level |-> FirstIndex({k \in fields : NameIncludesAny(name(k), {"level", "severity"})}),
      traceId |-> FirstIndex({k \in fields :
                  \/ ToLowerCase(name(k)) = ToLowerCase(customTraceIdField)
                  \/ NameIncludesAny(name(k), {ToLowerCase(customTraceIdField),
                                               "traceid", "trace_id", "traceId"})}),
      spanId |-> FirstIndex({k \in fields :
                  \/ ToLowerCase(name(k)) = ToLowerCase(customSpanIdField)
                  \/ NameIncludesAny(name(k), {ToLowerCase(customSpanIdField),
                                               "spanid", "span_id", "spanId"})})]

\* the LogLine pushed for row i of a log frame
ParsedLog(frame, cols, customTraceIdField, customSpanIdField, i) ==
  LET labels == IF cols.labels # 0 THEN frame.fields[cols.labels].values[i] ELSE <<>>
      level == IF cols.level # 0 THEN frame.fields[cols.level].values[i] ELSE Undefined
      traceIdColumn == IF cols.traceId # 0
                         THEN StringOrEmpty(frame.fields[cols.traceId].values[i])
                         ELSE Undefined
      spanIdColumn == IF cols.spanId # 0
                        THEN StringOrEmpty(frame.fields[cols.spanId].values[i])
                        ELSE Undefined
      traceIdValue == IF ~HasValue(traceIdColumn)
                        THEN JsOr(LabelGet(labels, "trace_id"),
                               JsOr(LabelGet(labels, "traceId"),
                                 JsOr(LabelGet(labels, "traceid"),
                                      LabelGet(labels, customTraceIdField))))
                        ELSE traceIdColumn
      spanIdValue == IF ~HasValue(spanIdColumn)
                       THEN JsOr(LabelGet(labels, "span_id"),
                              JsOr(LabelGet(labels, "spanId"),
                                JsOr(LabelGet(labels, "spanid"),
                                     LabelGet(labels, customSpanIdField))))
                       ELSE spanIdColumn
  IN [timestamp |-> Num(frame.fields[cols.time].values[i]),
      line |-> StringOrEmpty(frame.fields[cols.line].values[i]),
      labels |-> labels,
      level |-> ParseLogLevel(JsOr(level, LabelGet(labels, "level"))),
      traceId |-> traceIdValue,
      spanId |-> spanIdValue]

\* variant of FrameLogs that emits a line per row for a frame without time
\* or message field instead of skipping it
FrameLogsNoSkip(frame, customTraceIdField, customSpanIdField) ==
  LET cols == LogColumns(frame, customTraceIdField, customSpanIdField)
  IN IF cols.time = 0 \/ cols.line = 0
       THEN [i \in 1..frame.length |->
               [timestamp |-> Num(0), line |-> "", labels |-> <<>>, level |-> "info",
                traceId |-> Undefined, spanId |-> Undefined]]
       ELSE [i \in 1..frame.length |->
               ParsedLog(frame, cols, customTraceIdField, customSpanIdField, i)]

\* the LogLines one frame contributes, in row order; none if it is skipped
FrameLogs(frame, customTraceIdField, customSpanIdField) ==
  LET cols == LogColumns(frame, customTraceIdField, customSpanIdField)
  IN IF frame.length = 0 \/ cols.time = 0 \/ cols.line = 0 THEN <<>>
     ELSE [i \in 1..frame.length |->
             ParsedLog(frame, cols, customTraceIdField, customSpanIdField, i)]

\* logs.sort((a, b) => a.timestamp - b.timestamp), a stable sort
RECURSIVE InsertLog(_, _)
InsertLog(sorted, x) ==
  IF sorted = <<>> THEN <<x>>
  ELSE IF ~NumLeq(Head(sorted).timestamp, x.timestamp) THEN <<x>> \o sorted
  ELSE <<Head(sorted)>> \o InsertLog(Tail(sorted), x)

RECURSIVE SortLogs(_)
SortLogs(ls) ==
  IF ls = <<>> THEN <<>>
  ELSE InsertLog(SortLogs(SubSeq(ls, 1, Len(ls) - 1)), ls[Len(ls)])

\* the for-loop over frames: the logs of frames k..Len, concatenated
RECURSIVE CollectLogs(_, _, _, _)
\* variant of CollectLogs that stops at the first frame without log lines
CollectLogsUntilSkip(fs, k, customTraceIdField, customSpanIdField) ==
  IF k > Len(fs) THEN <<>>
  ELSE LET lines == FrameLogs(fs[k], customTraceIdField, customSpanIdField)
       IN IF lines = <<>> THEN <<>>
          ELSE lines \o CollectLogs(fs, k + 1, customTraceIdField, customSpanIdField)

CollectLogs(fs, k, customTraceIdField, customSpanIdField) ==
  IF k > Len(fs) THEN <<>>
  ELSE FrameLogs(fs[k], customTraceIdField, customSpanIdField)
         \o CollectLogs(fs, k + 1, customTraceIdField, customSpanIdField)

\* variant of ParseLogData that returns the rows in frame order
ParseLogDataUnsorted(fs, opts) ==
  CollectLogs(fs, 1, JsOr(opts.lokiTraceIdField, "traceId"),
                     JsOr(opts.lokiSpanIdField, "spanId"))

\* parseLogData(fs, {lokiTraceIdField, lokiSpanIdField})
ParseLogData(fs, opts) ==
  SortLogs(CollectLogs(fs, 1, JsOr(opts.lokiTraceIdField, "traceId"),
                              JsOr(opts.lokiSpanIdField, "spanId")))

----------------------------------------------------------------------------
(* Inputs *)

\* a Span as parseTraceData creates it (no children, no depth yet)
NewSpan(traceId, spanId, parentSpanId, serviceName, startTime, duration) ==
  [traceId |-> traceId, spanId |-> spanId, parentSpanId |-> parentSpanId,
   operationName |-> "unknown", serviceName |-> serviceName,
   startTime |-> startTime, duration |-> duration,
   children |-> <<>>, depth |-> NoDepth]

NewLog(timestamp, traceId, spanId) ==
  [timestamp |-> timestamp, line |-> "", labels |-> <<>>, level |-> "info",
   traceId |-> traceId, spanId |-> spanId]

\* the option values of module.ts when the user sets nothing
DefaultOptions ==
  [durationUnit |-> "auto", lokiTraceIdField |-> Undefined, lokiSpanIdField |-> Undefined]

IdNames == <<"a", "b", "c", "d", "e">>
ParentChoices == {Undefined, "", "a", "b", "c", "x"}

\* span sequences for the tree builder: every parent link pattern over up to
\* MaxSpans spans (parentless, orphan, self-parent, cycles, duplicate ids);
\* times and services follow one of two profiles
ProfileStart(p, i) == Num(((i * (p + 1)) % 3) * 10)
ProfileDuration(p, i) == Num(((i + p) % 2) * 25 + 5)
ProfileService(p, i) == IF (i + p) % 3 = 0 THEN "db" ELSE "api"

TreeSpanInputs ==
  UNION { { [i \in 1..n |-> NewSpan("t1", ids[i], parents[i], ProfileService(p, i),
                                    ProfileStart(p, i), ProfileDuration(p, i))] :
              ids \in [1..n -> {"a"}] \cup {[i \in 1..n |-> IdNames[i]]}
                      \cup {[i \in 1..n |-> IF i = n THEN "a" ELSE IdNames[i]]},
              parents \in [1..n -> ParentChoices],
              p \in 0..1 } : n \in 0..MaxSpans }

\* span sequences for a repeated buildTraceTree: distinct ids, every span
\* parentless, a child of "a" or an orphan
RebuildSpanInputs ==
  UNION { { [i \in 1..n |-> NewSpan("t1", IdNames[i], parents[i], ProfileService(0, i),
                                    ProfileStart(0, i), ProfileDuration(0, i))] :
              parents \in [1..n -> {Undefined, "a", "x"}] } : n \in 0..MaxSpans }

TreeLogInputs == {<<>>, <<NewLog(Num(0), Undefined, "a")>>}

\* span sequences for the matcher: a root "a" and a second span that is its
\* child, a second parentless span or an orphan
MatchSpanInputs ==
  { <<NewSpan("t1", "a", Undefined, "api", Num(5000), Num(2000)),
      NewSpan(t, "b", par, "db", Num(st), Num(3000))>> :
      t \in {"t1", "t2"}, par \in {"a", Undefined, "x"}, st \in {5000, 6000} }

MatchTimestamps == {0, 3999000, 3999999, 4000000, 6500000, 8000000, 8000001, 8001000}

MatchLogRecords ==
  { NewLog(Num(ts), t, s) : ts \in MatchTimestamps,
                            t \in {Undefined, "", "t1"},
                            s \in {Undefined, "", "a", "b"} }

RECURSIVE SeqsUpTo(_, _)
SeqsUpTo(S, n) ==
  IF n = 0 THEN {<<>>}
  ELSE LET shorter == SeqsUpTo(S, n - 1)
       IN shorter \cup {Append(q, x) : q \in {r \in shorter : Len(r) = n - 1}, x \in S}

MatchLogInputs == SeqsUpTo(MatchLogRecords, MaxLogs)

\* a LogLine with the given level and message
LeveledLog(level, line) == [NewLog(Num(0), Undefined, Undefined) EXCEPT !.level = level, !.line = line]

\* logs for getLogSeverity: every class by level and by message, in mixed
\* case, unknown and missing levels
SeverityLogRecords ==
  { LeveledLog("error", ""), LeveledLog("critical", "ok"), LeveledLog("FATAL", ""),
    LeveledLog("info", "contains exception"), LeveledLog("debug", "CRIT"),
    LeveledLog(Undefined, "Fatal Error"),
    LeveledLog("warn", ""), LeveledLog("Warning", "ok"), LeveledLog("info", "a WARN here"),
    LeveledLog("info", "ok"), LeveledLog("debug", ""), LeveledLog("trace", "ok"),
    LeveledLog("notice", "ok"), LeveledLog(Undefined, ""), LeveledLog("err", "ok"),
    LeveledLog("", "warming up") }

\* log lists for getLogSeverity
SeverityInputs == SeqsUpTo(SeverityLogRecords, MaxSeverityLogs)

\* frames
Field(name, type, values) == [name |-> name, type |-> type, values |-> values]
Frame(fields, length) == [fields |-> fields, length |-> length]

\* raw durations around every threshold of the unit heuristic, 0 included
DurationValues ==
  {0, 3, 999, 1000, 4500, 999999, 1000000, 5000000, 999999999, 1000000000, 1500000000}

RawStart(i) == 250 * i

\* a frame with the default field names traceID, spanID, startTime, duration
DefaultTraceFrame(n, durations) ==
  Frame(<<Field("traceID", "string", [i \in 1..n |-> "t1"]),
          Field("spanID", "string", [i \in 1..n |-> IdNames[i]]),
          Field("startTime", "number", [i \in 1..n |-> RawStart(i)]),
          Field("duration", "number", durations)>>, n)

\* the same with a serviceName column and, optionally, a parentSpanID column
ServiceTraceFrame(n, services, parents, withParents) ==
  Frame(<<Field("traceID", "string", [i \in 1..n |-> "t1"]),
          Field("spanID", "string", [i \in 1..n |-> IdNames[i]])>>
        \o (IF withParents THEN <<Field("parentSpanID", "string", parents)>> ELSE <<>>)
        \o <<Field("serviceName", "string", services),
             Field("startTime", "number", [i \in 1..n |-> RawStart(i)]),
             Field("duration", "number", [i \in 1..n |-> 5000000])>>, n)

\* one default trace frame: every duration column under durationUnit auto,
\* and one duration column under each explicit unit
UnitInputs ==
  UNION { { [frames |-> <<DefaultTraceFrame(n, durations)>>,
             options |-> DefaultOptions] :
              durations \in [1..n -> DurationValues] } : n \in 1..MaxRows }
  \cup { [frames |-> <<DefaultTraceFrame(1, <<d>>)>>,
          options |-> [DefaultOptions EXCEPT !.durationUnit = unit]] :
            d \in {3, 5000000},
            unit \in {"microseconds", "milliseconds", "seconds"} }

\* one trace frame with service names and with or without parent ids
ServiceInputs ==
  UNION { { [frames |-> <<ServiceTraceFrame(n, services, parents, withParents)>>,
             options |-> DefaultOptions] :
              services \in [1..n -> {"api", "db", ""}],
              parents \in [1..n -> {"", "a"}],
              withParents \in BOOLEAN } :
          n \in 1..MaxRows }

\* frames a collection is made of: trace frames with and without rows, a
\* frame without startTime, one without a span id, log frames and log-like
\* frames without a message field
CollectionFrames ==
  { DefaultTraceFrame(0, <<>>),
    DefaultTraceFrame(1, <<5000000>>),
    Frame(<<Field("trace_id", "string", <<"t9">>), Field("span_id", "string", <<"z">>),
            Field("start_time", "number", <<750>>),
            Field("duration", "number", <<5000000>>)>>, 1),
    Frame(<<Field("traceID", "string", <<"t1">>), Field("spanID", "string", <<"a">>),
            Field("duration", "number", <<5000000>>)>>, 1),
    Frame(<<Field("traceID", "string", <<"t1">>), Field("duration", "number", <<7>>)>>, 1),
    Frame(<<Field("Time", "time", <<>>), Field("Line", "string", <<>>)>>, 0),
    Frame(<<Field("Time", "time", <<5>>), Field("Line", "string", <<"x">>)>>, 1),
    Frame(<<Field("Time", "time", <<9, 3>>), Field("message", "string", <<"y", "">>),
            Field("traceId", "string", <<"t1", "">>)>>, 2),
    Frame(<<Field("Time", "time", <<4>>), Field("Value", "number", <<1>>)>>, 1) }

CollectionInputs ==
  { [frames |-> fs, options |-> DefaultOptions] : fs \in SeqsUpTo(CollectionFrames, MaxFrames) }

\* frames parseLogData skips: no rows, no time field, no message field
SkippedFrames ==
  { Frame(<<Field("Time", "time", <<>>), Field("Line", "string", <<>>)>>, 0),
    Frame(<<Field("id", "string", <<"1">>), Field("Line", "string", <<"q">>)>>, 1),
    Frame(<<Field("Time", "time", <<4>>), Field("Value", "number", <<1>>)>>, 1) }

\* two log frames and a skipped frame before, between or after them
SkipInputs ==
  LET early == Frame(<<Field("Time", "time", <<8>>), Field("Line", "string", <<"e">>)>>, 1)
      late == Frame(<<Field("ts", "number", <<2>>), Field("Body", "string", <<"l">>)>>, 1)
  IN { [frames |-> fs, options |-> DefaultOptions] :
         fs \in UNION { {<<skipped, early, late>>, <<early, skipped, late>>,
                         <<early, late, skipped>>} : skipped \in SkippedFrames } }

\* labels of a row: none, the first key of each chain, a later key before
\* the last, an empty value before a later key, the override keys, and an
\* override key behind a default key
IdLabelValues ==
  { <<>>,
    ("trace_id" :> "L1" @@ "span_id" :> "P1"),
    ("traceId" :> "L2" @@ "traceid" :> "L3" @@ "spanId" :> "P2" @@ "spanid" :> "P3"),
    ("trace_id" :> "" @@ "traceid" :> "L3" @@ "span_id" :> "" @@ "spanid" :> "P3"),
    ("tid" :> "L4" @@ "sid" :> "P4"),
    ("trace_id" :> "L1" @@ "tid" :> "L4" @@ "span_id" :> "P1" @@ "sid" :> "P4") }

\* one log frame of one row with labels and, optionally, id columns
IdFrame(traceIds, spanIds, labels) ==
  Frame(<<Field("Time", "time", <<7>>), Field("Line", "string", <<"m">>),
          Field("labels", "other", <<labels>>)>>
        \o [k \in 1..Len(traceIds) |-> Field("traceId", "string", <<traceIds[k]>>)]
        \o [k \in 1..Len(spanIds) |-> Field("spanId", "string", <<spanIds[k]>>)], 1)

\* id columns missing, empty or filled, every labels value, with and
\* without override names
IdInputs ==
  { [frames |-> <<IdFrame(traceIds, spanIds, labels)>>,
     options |-> [DefaultOptions EXCEPT !.lokiTraceIdField = names[1],
                                        !.lokiSpanIdField = names[2]]] :
      traceIds \in {<<>>, <<"">>, <<"c1">>},
      spanIds \in {<<>>, <<"">>, <<"s1">>},
      labels \in IdLabelValues,
      names \in {<<Undefined, Undefined>>, <<"tid", "sid">>} }

\* the columns of a two-row trace frame with every optional attribute
FullTraceFields ==
  [traceID |-> Field("traceID", "string", <<"t1", "t1">>),
   spanID |-> Field("spanID", "string", <<"a", "b">>),
   parentSpanID |-> Field("parentSpanID", "string", <<"", "a">>),
   operationName |-> Field("operationName", "string", <<"GET", "query">>),
   serviceName |-> Field("serviceName", "string", <<"api", "db">>),
   startTime |-> Field("startTime", "number", <<250, 500>>),
   duration |-> Field("duration", "number", <<5000000, 5000000>>)]

\* orderings of these columns: the span id before or after the parent span
\* id, the operation name before or after the service name
ColumnOrders ==
  { <<"traceID", "spanID", "parentSpanID", "operationName", "serviceName", "startTime", "duration">>,
    <<"traceID", "parentSpanID", "spanID", "operationName", "serviceName", "startTime", "duration">>,
    <<"traceID", "spanID", "parentSpanID", "serviceName", "operationName", "startTime", "duration">>,
    <<"duration", "startTime", "serviceName", "operationName", "parentSpanID", "spanID", "traceID">> }

OrderInputs ==
  { [frames |-> <<Frame([k \in DOMAIN order |-> FullTraceFields[order[k]]], 2)>>,
     options |-> DefaultOptions] : order \in ColumnOrders }

\* values of a level column: every class in mixed case, inside longer
\* words, two classes in one value, unknown, empty and missing
LevelValues ==
  {"ERROR", "stderr", "Fatal", "critical", "warning", "warn: fatal", "DEBUG",
   "debugtrace", "Trace", "info", "notice", "", Undefined}

\* values of a labels column
LabelValues == {<<>>, ("level" :> "warn"), ("level" :> "FATAL")}

\* one log frame of one row, with or without a level column
LevelFrame(level, labels, withLevel) ==
  Frame(<<Field("Time", "time", <<7>>), Field("Line", "string", <<"m">>)>>
        \o (IF withLevel THEN <<Field("level", "string", <<level>>)>> ELSE <<>>)
        \o <<Field("labels", "other", <<labels>>)>>, 1)

LevelInputs ==
  { [frames |-> <<LevelFrame(level, labels, TRUE)>>, options |-> DefaultOptions] :
      level \in LevelValues, labels \in LabelValues }
  \cup { [frames |-> <<LevelFrame(Undefined, labels, FALSE)>>, options |-> DefaultOptions] :
      labels \in LabelValues }

\* a trace frame whose rows carry the given trace ids; row 1 is parentless
\* and every other row names it as parent
MixedTraceFrame(n, traceIds) ==
  Frame(<<Field("traceID", "string", traceIds),
          Field("spanID", "string", [i \in 1..n |-> IdNames[i]]),
          Field("parentSpanID", "string", [i \in 1..n |-> IF i = 1 THEN "" ELSE "a"]),
          Field("startTime", "number", [i \in 1..n |-> RawStart(i)]),
          Field("duration", "number", [i \in 1..n |-> 5000000])>>, n)

TraceIdInputs ==
  UNION { { [frames |-> <<MixedTraceFrame(n, traceIds)>>, options |-> DefaultOptions] :
              traceIds \in [1..n -> {"t1", "t2"}] } : n \in 1..MaxRows }

ParseInputs ==
  UnitInputs \cup ServiceInputs \cup CollectionInputs \cup LevelInputs \cup TraceIdInputs
    \cup SkipInputs \cup IdInputs \cup OrderInputs

----------------------------------------------------------------------------
(* Operations *)

\* const trace = buildTraceTree(spans)
BuildTraceTreeCall ==
  /\ pc = "input"
  /\ LET r == BuildTraceTree(spans)
     IN /\ spans' = r.spans
        /\ trace' = r.trace
        /\ threw' = r.threw
        /\ pc' = IF r.threw THEN "threw" ELSE "built"
  /\ UNCHANGED <<colorVars, timelineVars, frames, options, multiplier, logs, matched, severity>>

\* variant of MatchLogsToSpansCall that stores logs and isExpanded in the
\* Span records themselves instead of in copies
MatchLogsToSpansCallInPlace ==
  /\ pc = "built"
  /\ LET r == MatchLogsToSpans(spans, trace, logs)
         entryOf(i) == CHOOSE k \in DOMAIN r.result : r.result[k].ref = i
         refs == {r.result[k].ref : k \in DOMAIN r.result}
     IN /\ matched' = r.result
        /\ spans' = [i \in DOMAIN spans |->
                       IF i \in refs
                         THEN spans[i] @@ [logs |-> r.result[entryOf(i)].logs,
                                           isExpanded |-> FALSE]
                         ELSE spans[i]]
        /\ threw' = r.threw
        /\ pc' = IF r.threw THEN "threw" ELSE "matched"
  /\ UNCHANGED <<colorVars, timelineVars, frames, options, multiplier, trace, logs, severity>>

\* const spansWithLogs = matchLogsToSpans(trace, logs)
MatchLogsToSpansCall ==
  /\ pc = "built"
  /\ LET r == MatchLogsToSpans(spans, trace, logs)
     IN /\ matched' = r.result
        /\ threw' = r.threw
        /\ pc' = IF r.threw THEN "threw" ELSE "matched"
  /\ UNCHANGED <<colorVars, timelineVars, frames, options, multiplier, spans, trace, logs, severity>>

\* the same span records in the opposite order
Reverse(ss) == [i \in DOMAIN ss |-> ss[Len(ss) + 1 - i]]

\* buildTraceTree applied again to the records the first call annotated,
\* handed over in the same or in the opposite order
RebuildTraceTreeCall ==
  /\ pc = "built"
  /\ \E input \in {spans, Reverse(spans)} :
       LET r == BuildTraceTree(input)
       IN /\ spans' = r.spans
          /\ trace' = r.trace
          /\ threw' = r.threw
          /\ pc' = IF r.threw THEN "threw" ELSE "rebuilt"
  /\ UNCHANGED <<colorVars, timelineVars, frames, options, multiplier, logs, matched, severity>>

RebuildInit ==
  /\ pc = "input"
  /\ frames = <<>>
  /\ options = DefaultOptions
  /\ multiplier = Num(1)
  /\ spans \in RebuildSpanInputs
  /\ trace = Null
  /\ logs = <<>>
  /\ matched = <<>>
  /\ severity = Undefined
  /\ threw = FALSE
  /\ serviceColorMap = <<>>
  /\ colorCall = NoColorCall
  /\ expandedSpans = {}
  /\ prevTraceIdRef = Undefined
  /\ collapsedByDefault = TRUE

TreeInit ==
  /\ pc = "input"
  /\ frames = <<>>
  /\ options = DefaultOptions
  /\ multiplier = Num(1)
  /\ spans \in TreeSpanInputs
  /\ trace = Null
  /\ logs \in TreeLogInputs
  /\ matched = <<>>
  /\ severity = Undefined
  /\ threw = FALSE
  /\ serviceColorMap = <<>>
  /\ colorCall = NoColorCall
  /\ expandedSpans = {}
  /\ prevTraceIdRef = Undefined
  /\ collapsedByDefault = TRUE

MatchInit ==
  /\ pc = "input"
  /\ frames = <<>>
  /\ options = DefaultOptions
  /\ multiplier = Num(1)
  /\ spans \in MatchSpanInputs
  /\ trace = Null
  /\ logs \in MatchLogInputs
  /\ matched = <<>>
  /\ severity = Undefined
  /\ threw = FALSE
  /\ serviceColorMap = <<>>
  /\ colorCall = NoColorCall
  /\ expandedSpans = {}
  /\ prevTraceIdRef = Undefined
  /\ collapsedByDefault = TRUE

\* const parsedTrace = parseTraceData(data.series, options.durationUnit)
ParseTraceDataCall ==
  /\ pc = "frames"
  /\ LET r == ParseTraceData(frames, options.durationUnit)
     IN /\ spans' = r.spans
        /\ trace' = r.trace
        /\ multiplier' = r.multiplier
        /\ threw' = r.threw
        /\ pc' = IF r.threw THEN "threw" ELSE "traceParsed"
  /\ UNCHANGED <<colorVars, timelineVars, frames, options, logs, matched, severity>>

\* const parsedLogs = parseLogData(data.series, {lokiTraceIdField, lokiSpanIdField})
ParseLogDataCall ==
  /\ pc = "traceParsed"
  /\ logs' = ParseLogData(frames, options)
  /\ pc' = "parsed"
  /\ UNCHANGED <<colorVars, timelineVars, frames, options, multiplier, spans, trace, matched, severity, threw>>

ParseInit ==
  /\ pc = "frames"
  /\ \E input \in ParseInputs : frames = input.frames /\ options = input.options
  /\ multiplier = Num(1)
  /\ spans = <<>>
  /\ trace = Null
  /\ logs = <<>>
  /\ matched = <<>>
  /\ severity = Undefined
  /\ threw = FALSE
  /\ serviceColorMap = <<>>
  /\ colorCall = NoColorCall
  /\ expandedSpans = {}
  /\ prevTraceIdRef = Undefined
  /\ collapsedByDefault = TRUE

\* service names: ServiceNamePool[1..k] fill the cache before the calls observed
ServiceNamePool ==
  <<"s1", "s2", "s3", "s4", "s5", "s6", "s7", "s8", "s9", "s10", "s11", "s12", "s13", "s14">>

\* the names asked for: two that may be cached already and two that are not
CalledServiceNames == {"s1", "s5", "s13", "s14"}

\* the cache after getServiceColor was called for the first k names of the pool
RECURSIVE CacheAfter(_)
CacheAfter(k) ==
  IF k = 0 THEN <<>> ELSE GetServiceColor(CacheAfter(k - 1), ServiceNamePool[k]).map

\* getServiceColor(span.serviceName)
GetServiceColorCall ==
  /\ pc = "colors"
  /\ \E name \in CalledServiceNames :
       LET r == GetServiceColor(serviceColorMap, name)
       IN /\ serviceColorMap' = r.map
          /\ colorCall' = [name |-> name, color |-> r.color]
  /\ UNCHANGED <<timelineVars, pc, frames, options, multiplier, spans, trace, logs, matched,
                 severity, threw>>

ColorInit ==
  /\ pc = "colors"
  /\ frames = <<>>
  /\ options = DefaultOptions
  /\ multiplier = Num(1)
  /\ spans = <<>>
  /\ trace = Null
  /\ logs = <<>>
  /\ matched = <<>>
  /\ severity = Undefined
  /\ threw = FALSE
  /\ \E k \in 0..MaxCached : serviceColorMap = CacheAfter(k)
  /\ colorCall = NoColorCall
  /\ expandedSpans = {}
  /\ prevTraceIdRef = Undefined
  /\ collapsedByDefault = TRUE

\* const severity = getLogSeverity(logs); at "noLogs" the caller has no
\* list to hand over and the argument is undefined
GetLogSeverityCall ==
  /\ pc \in {"logs", "noLogs"}
  /\ severity' = GetLogSeverity(IF pc = "noLogs" THEN Undefined ELSE logs)
  /\ pc' = "severity"
  /\ UNCHANGED <<colorVars, timelineVars, frames, options, multiplier, spans, trace, logs, matched, threw>>

SeverityInit ==
  /\ pc \in {"logs", "noLogs"}
  /\ frames = <<>>
  /\ options = DefaultOptions
  /\ multiplier = Num(1)
  /\ spans = <<>>
  /\ trace = Null
  /\ logs \in SeverityInputs
  /\ pc = "noLogs" => logs = <<>>
  /\ matched = <<>>
  /\ severity = Undefined
  /\ threw = FALSE
  /\ serviceColorMap = <<>>
  /\ colorCall = NoColorCall
  /\ expandedSpans = {}
  /\ prevTraceIdRef = Undefined
  /\ collapsedByDefault = TRUE

----------------------------------------------------------------------------
(* TraceTimeline: the expanded set (src/src/components/TraceTimeline.tsx) *)

MaxTimelineSpans == 3   \* most spans in a trace handed to the timeline

\* finalSpans under the default minLogLevel and spanFilter ('all'): every
\* entry of matchLogsToSpans is kept with all its logs and the root is in it
FinalSpans(ms) == ms

\* new Map(finalSpans.map((s) => [s.spanId, s])).get(spanId): the position of
\* the entry, the last one with that id winning; 0 when there is none
FinalSpanMapGet(fs, spanId) ==
  LET hits == {k \in DOMAIN fs : fs[k].span.spanId = spanId}
  IN IF hits = {} THEN 0 ELSE CHOOSE k \in hits : \A m \in hits : m <= k

\* collectDescendantIds(spanId, map, out): the ids added to `out`
RECURSIVE CollectDescendantIds(_, _, _)
CollectDescendantIds(fs, ss, spanId) ==
  LET k == FinalSpanMapGet(fs, spanId)
  IN IF k = 0 THEN {}
     ELSE UNION { {ss[c].spanId} \cup CollectDescendantIds(fs, ss, ss[c].spanId) :
                    c \in Range(fs[k].span.children) }

\* the updater of toggleSpan(spanId) applied to the set `prev`
ToggleSpan(prev, fs, ss, spanId) ==
  IF spanId \in prev
    THEN (prev \ {spanId}) \ CollectDescendantIds(fs, ss, spanId)
    ELSE prev \cup {spanId}

\* isSpanVisible(finalSpans[k]) of the visibleSpans memo
RECURSIVE IsSpanVisible(_, _, _)
IsSpanVisible(fs, expanded, k) ==
  IF ~HasValue(fs[k].span.parentSpanId) THEN TRUE
  ELSE LET parent == FinalSpanMapGet(fs, fs[k].span.parentSpanId)
       IN IF parent = 0 THEN TRUE
          ELSE IF ~IsSpanVisible(fs, expanded, parent) THEN FALSE
          ELSE fs[parent].span.spanId \in expanded

\* the set the initialisation effect hands to setExpandedSpans
InitialExpandedSpans(tr, ss, fs, collapsed) ==
  LET rootId == IF tr.rootSpan = NoSpan THEN Undefined ELSE ss[tr.rootSpan].spanId
      init == IF collapsed THEN {}
              ELSE {fs[k].span.spanId : k \in {m \in DOMAIN fs : Len(fs[m].logs) > 0}}
  IN IF HasValue(rootId) THEN init \cup {rootId} ELSE init

\* variant of InitExpandedEffect without the prevTraceIdRef guard
InitExpandedEffectEveryRender(prevId, prev, tr, ss, fs, collapsed) ==
  [prevTraceIdRef |-> tr.traceId,
   expandedSpans |-> InitialExpandedSpans(tr, ss, fs, collapsed)]

\* the initialisation effect, run after a render with the ref at prevId and
\* the state at prev
InitExpandedEffect(prevId, prev, tr, ss, fs, collapsed) ==
  IF prevId = tr.traceId
    THEN [prevTraceIdRef |-> prevId, expandedSpans |-> prev]
    ELSE [prevTraceIdRef |-> tr.traceId,
          expandedSpans |-> InitialExpandedSpans(tr, ss, fs, collapsed)]

\* traces for the timeline: a root "a" and descendants, each the child of the
\* root or of the span before it
TimelineSpanInputs ==
  UNION { { [i \in 1..n |-> NewSpan(t, IdNames[i], parents[i], "api", Num(5000), Num(2000))] :
              parents \in { p \in [1..n -> {Undefined, "a", "b", "c", "d"}] :
                              \A i \in 1..n : IF i = 1 THEN p[i] = Undefined
                                              ELSE p[i] \in {"a", IdNames[i - 1]} },
              t \in {"t1", "t2"} } : n \in 1..MaxTimelineSpans }

\* logs for the timeline: none, one carrying a span id, or one of trace "t1"
\* that falls into the window of every span
TimelineLogInputs ==
  {<<>>} \cup { <<NewLog(Num(6000000), "t1", s)>> : s \in {Undefined, "b", "c"} }

\* one render of TraceTimeline with the given props followed by its effects:
\* the panel hands over buildTraceTree's trace, the memos recompute
\* rawSpansWithLogs and finalSpans, the initialisation effect runs
RenderTimeline(newSpans, newLogs, newCollapsed) ==
  \E built \in {BuildTraceTree(newSpans)} :
  \E m \in {MatchLogsToSpans(built.spans, built.trace, newLogs)} :
  \E fs \in {FinalSpans(m.result)} :
  \E e \in {InitExpandedEffect(prevTraceIdRef, expandedSpans, built.trace, built.spans,
                               fs, newCollapsed)} :
     /\ spans' = built.spans
     /\ trace' = built.trace
     /\ logs' = newLogs
     /\ matched' = fs
     /\ collapsedByDefault' = newCollapsed
     /\ threw' = (built.threw \/ m.threw)
     /\ IF built.threw \/ m.threw
          THEN pc' = "threw" /\ UNCHANGED <<expandedSpans, prevTraceIdRef>>
          ELSE /\ pc' = "shown"
               /\ expandedSpans' = e.expandedSpans
               /\ prevTraceIdRef' = e.prevTraceIdRef
     /\ UNCHANGED <<colorVars, frames, options, multiplier, severity>>

\* the component is mounted with its first props
MountTimeline ==
  /\ pc = "mount"
  /\ RenderTimeline(spans, logs, collapsedByDefault)

\* a dashboard refresh or an option change delivers new props
RefreshTimeline ==
  /\ pc = "shown"
  /\ \E newSpans \in TimelineSpanInputs, newLogs \in TimelineLogInputs,
        newCollapsed \in BOOLEAN :
       RenderTimeline(newSpans, newLogs, newCollapsed)

\* the spanIds of the rows on screen (visibleSpans)
VisibleSpanIds ==
  {matched[k].span.spanId : k \in {m \in DOMAIN matched : IsSpanVisible(matched, expandedSpans, m)}}

\* onToggle of a row on screen: toggleSpan(span.spanId)
ToggleSpanCall ==
  /\ pc = "shown"
  /\ \E spanId \in VisibleSpanIds :
       expandedSpans' = ToggleSpan(expandedSpans, matched, spans, spanId)
  /\ UNCHANGED <<colorVars, prevTraceIdRef, collapsedByDefault, pc, frames, options,
                 multiplier, spans, trace, logs, matched, severity, threw>>

\* before the first render: useState(new Set()), useRef(undefined)
TimelineInit ==
  /\ pc = "mount"
  /\ frames = <<>>
  /\ options = DefaultOptions
  /\ multiplier = Num(1)
  /\ spans \in TimelineSpanInputs
  /\ trace = Null
  /\ logs \in TimelineLogInputs
  /\ matched = <<>>
  /\ severity = Undefined
  /\ threw = FALSE
  /\ serviceColorMap = <<>>
  /\ colorCall = NoColorCall
  /\ expandedSpans = {}
  /\ prevTraceIdRef = Undefined
  /\ collapsedByDefault \in BOOLEAN

TreeNext == BuildTraceTreeCall \/ MatchLogsToSpansCall
ParseNext == ParseTraceDataCall \/ ParseLogDataCall
RebuildNext == BuildTraceTreeCall \/ RebuildTraceTreeCall
TimelineNext == MountTimeline \/ RefreshTimeline \/ ToggleSpanCall

SpecTree == TreeInit /\ [][TreeNext]_vars
SpecMatch == MatchInit /\ [][TreeNext]_vars
SpecParse == ParseInit /\ [][ParseNext]_vars
SpecRebuild == RebuildInit /\ [][RebuildNext]_vars
SpecColor == ColorInit /\ [][GetServiceColorCall]_vars
SpecSeverity == SeverityInit /\ [][GetLogSeverityCall]_vars
SpecTimeline == TimelineInit /\ [][TimelineNext]_vars

----------------------------------------------------------------------------
(* Vocabulary of the properties *)

Built == pc \in {"built", "matched"}
Parentless(i) == spans[i].parentSpanId = Undefined \/ spans[i].parentSpanId = ""
ParentlessSpans == {i \in DOMAIN spans : Parentless(i)}
ChildrenOf(i) == Range(spans[i].children)

\* spans reachable from S through at most n children links
RECURSIVE ReachClosure(_, _)
ReachClosure(S, n) ==
  IF n = 0 THEN S ELSE ReachClosure(S \cup UNION {ChildrenOf(i) : i \in S}, n - 1)

Reachable == IF Built THEN ReachClosure({trace.rootSpan}, Len(spans)) ELSE {}

\* depth(c) == depth(p) + 1, false when either depth is undefined
DepthEdge(p, c) ==
  /\ spans[p].depth # NoDepth
  /\ spans[c].depth # NoDepth
  /\ spans[c].depth = spans[p].depth + 1

----------------------------------------------------------------------------
(* Properties of buildTraceTree *)

\* C1: when at least one span has no parentSpanId (absent or ''), rootSpan
\* is the last such span in input order.
C1_RootIsLastParentless ==
  (Built /\ ParentlessSpans # {}) =>
    /\ trace.rootSpan \in ParentlessSpans
    /\ \A i \in ParentlessSpans : i <= trace.rootSpan

C1_Witness ==
  /\ pc = "built"
  /\ \E i, j \in ParentlessSpans :
       /\ i < j
       /\ spans[i].parentSpanId = ""
       /\ spans[j].parentSpanId = Undefined
       /\ trace.rootSpan = j
       /\ \A k \in ParentlessSpans : k <= j

\* C2 as stated: every edge c in p.children of every span p has
\* depth(c) = depth(p) + 1, and the root has depth 0.
C2_EveryEdgeOfEverySpan ==
  Built =>
    /\ spans[trace.rootSpan].depth = 0
    /\ \A p \in DOMAIN spans : \A c \in ChildrenOf(p) : DepthEdge(p, c)

\* C2 (amended): the root has depth 0 and every edge whose parent is
\* reachable from rootSpan has depth(c) = depth(p) + 1.
C2_ReachableEdgesDepth ==
  Built =>
    /\ spans[trace.rootSpan].depth = 0
    /\ \A p \in Reachable : \A c \in ChildrenOf(p) : DepthEdge(p, c)

C2_Witness ==
  /\ pc = "built"
  /\ \E p \in Reachable : \E c \in ChildrenOf(p) : spans[c].depth = spans[p].depth + 1
  /\ \E q \in DOMAIN spans \ Reachable : ChildrenOf(q) # {}

\* C3: duration = endTime - startTime, startTime is the least startTime and
\* endTime the greatest startTime + duration over all spans, reachable or not.
C3_TimingOverAllSpans ==
  Built =>
    /\ NumEq(NumAdd(trace.startTime, trace.duration), trace.endTime)
    /\ \A i \in DOMAIN spans : NumLeq(trace.startTime, spans[i].startTime)
    /\ \E i \in DOMAIN spans : NumEq(trace.startTime, spans[i].startTime)
    /\ \A i \in DOMAIN spans :
         NumLeq(NumAdd(spans[i].startTime, spans[i].duration), trace.endTime)
    /\ \E i \in DOMAIN spans :
         NumEq(NumAdd(spans[i].startTime, spans[i].duration), trace.endTime)

C3_Witness ==
  /\ pc = "built"
  /\ \E u \in DOMAIN spans \ Reachable :
       /\ NumEq(spans[u].startTime, trace.startTime)
       /\ \A r \in Reachable : ~NumLeq(spans[r].startTime, spans[u].startTime)
  /\ \E u \in DOMAIN spans \ Reachable :
       /\ NumEq(NumAdd(spans[u].startTime, spans[u].duration), trace.endTime)
       /\ \A r \in Reachable :
            ~NumLeq(trace.endTime, NumAdd(spans[r].startTime, spans[r].duration))

\* C4: for every non-empty span sequence buildTraceTree returns a Trace
\* whose rootSpan is one of the input spans.
C4_RootAlwaysDefined ==
  (pc # "input" /\ Len(spans) > 0) =>
    /\ ~threw
    /\ trace # Null
    /\ trace.rootSpan \in DOMAIN spans

\* C5: buildTraceTree, flattenSpans and matchLogsToSpans return for every
\* span sequence, self-parented and cyclic ones included; none raises.
C5_NeverRaises == Len(spans) > 0 => ~threw

----------------------------------------------------------------------------
(* Properties of parseTraceData and parseLogData *)

TraceParsed == pc \in {"traceParsed", "parsed"}

\* the field of a frame with exactly this name (0 if none)
ColumnNamed(frame, name) ==
  LET hits == {k \in DOMAIN frame.fields : frame.fields[k].name = name}
  IN IF hits = {} THEN 0 ELSE CHOOSE k \in hits : TRUE

FieldNames(frame) == {frame.fields[k].name : k \in DOMAIN frame.fields}

\* frames[1] carries the default field names
DefaultNamedInput ==
  /\ Len(frames) = 1
  /\ {"traceID", "spanID", "startTime", "duration"} \subseteq FieldNames(frames[1])
  /\ frames[1].length > 0

RawColumn(name) == frames[1].fields[ColumnNamed(frames[1], name)].values

\* no row of frames[1] carries a parent span id
NoParentValues ==
  \/ "parentSpanID" \notin FieldNames(frames[1])
  \/ \A i \in 1..frames[1].length : RawColumn("parentSpanID")[i] = ""

ExpectedServiceName(i) ==
  IF "serviceName" \notin FieldNames(frames[1]) THEN "unknown"
  ELSE IF RawColumn("serviceName")[i] = "" THEN "unknown"
  ELSE RawColumn("serviceName")[i]

ServicesExact ==
  /\ Range(trace.services) = {ExpectedServiceName(i) : i \in 1..frames[1].length}
  /\ Cardinality(Range(trace.services)) = Len(trace.services)

\* C6 as stated: default field names and no parent ids give a tree in which
\* every span but the root is a direct child of the root, and services holds
\* exactly the distinct service names.
C6_AllSpansChildrenOfRoot ==
  (TraceParsed /\ DefaultNamedInput /\ NoParentValues) =>
    /\ trace # Null
    /\ \A i \in DOMAIN spans : i # trace.rootSpan => i \in ChildrenOf(trace.rootSpan)
    /\ ServicesExact

\* C6 (amended): default field names and no parent ids give a trace whose
\* rootSpan is the span of the last row and has no children, so that no other
\* span is reachable from it; services holds exactly the distinct service
\* names, each once.
C6_LastRowIsLoneRoot ==
  (TraceParsed /\ DefaultNamedInput /\ NoParentValues) =>
    /\ trace # Null
    /\ Len(spans) = frames[1].length
    /\ trace.rootSpan = Len(spans)
    /\ \A i \in DOMAIN spans : spans[i].children = <<>>
    /\ \A i \in DOMAIN spans : (spans[i].depth # NoDepth) <=> (i = trace.rootSpan)
    /\ ServicesExact

C6_Witness ==
  /\ pc = "traceParsed"
  /\ DefaultNamedInput
  /\ "parentSpanID" \in FieldNames(frames[1])
  /\ NoParentValues
  /\ frames[1].length = 2
  /\ RawColumn("serviceName") = <<"db", "api">>
  /\ trace.rootSpan = 2
  /\ spans[1].depth = NoDepth
  /\ trace.services = <<"db", "api">>

\* a frame qualifies as trace frame: a trace-id-named and a span-id-named field
QualifiesAsTrace(frame) ==
  /\ \E n \in FieldNames(frame) :
       Includes(ToLowerCase(n), "traceid") \/ Includes(ToLowerCase(n), "trace_id")
  /\ \E n \in FieldNames(frame) :
       Includes(ToLowerCase(n), "spanid") \/ Includes(ToLowerCase(n), "span_id")

QualifyingFrames == {k \in DOMAIN frames : QualifiesAsTrace(frames[k])}

\* the collection is empty, holds no qualifying frame, or its first
\* qualifying frame has no rows
EmptyTraceInput ==
  \/ frames = <<>>
  \/ QualifyingFrames = {}
  \/ \E k \in QualifyingFrames :
       /\ \A j \in QualifyingFrames : k <= j
       /\ frames[k].length = 0

\* a frame parseLogData reads rows from: it has rows, a time field and a
\* message field
IsLogFrame(frame) ==
  /\ frame.length > 0
  /\ \E k \in DOMAIN frame.fields :
       \/ frame.fields[k].type = "time"
       \/ \E w \in {"time", "ts", "timestamp"} : Includes(ToLowerCase(frame.fields[k].name), w)
  /\ \E n \in FieldNames(frame) :
       ToLowerCase(n) \in {"line", "message", "body", "content", "log"}

\* C7 as stated: on empty trace input parseTraceData returns null and
\* parseLogData returns the empty sequence, and neither raises.
C7_EmptyInputNoTraceNoLogs ==
  (pc \in {"parsed", "threw"} /\ EmptyTraceInput) =>
    /\ ~threw
    /\ trace = Null
    /\ logs = <<>>

\* C7 (amended): on empty trace input parseTraceData returns null; and
\* parseLogData returns the empty sequence when no frame of the collection
\* has rows together with a time field and a message field; neither raises.
C7_EmptyInputDegrades ==
  /\ (pc # "frames" /\ EmptyTraceInput) => (~threw /\ trace = Null)
  /\ (pc = "parsed" /\ \A k \in DOMAIN frames : ~IsLogFrame(frames[k])) => logs = <<>>
  /\ (pc = "parsed" /\ logs = <<>>) => \A k \in DOMAIN frames : ~IsLogFrame(frames[k])

C7_Witness ==
  /\ pc = "parsed"
  /\ Len(frames) = 2
  /\ QualifiesAsTrace(frames[1])
  /\ frames[1].length = 0
  /\ frames[2].length > 0
  /\ ~IsLogFrame(frames[2])
  /\ trace = Null
  /\ logs = <<>>
  /\ ~threw

\* the sampled positive durations of the trace frame, by row
SampleRows ==
  {i \in 1..frames[1].length : i <= SampleLimit /\ RawColumn("duration")[i] > 0}
SamplesBelow(x) == Cardinality({i \in SampleRows : RawColumn("duration")[i] < x})
SamplesAbove(x) == Cardinality({i \in SampleRows : RawColumn("duration")[i] > x})

\* the two middle values of the samples (equal when their number is odd)
LowerMiddle ==
  CHOOSE x \in {RawColumn("duration")[i] : i \in SampleRows} :
    /\ SamplesBelow(x) <= (Cardinality(SampleRows) - 1) \div 2
    /\ SamplesAbove(x) <= Cardinality(SampleRows) \div 2
UpperMiddle ==
  CHOOSE x \in {RawColumn("duration")[i] : i \in SampleRows} :
    /\ SamplesBelow(x) <= Cardinality(SampleRows) \div 2
    /\ SamplesAbove(x) <= (Cardinality(SampleRows) - 1) \div 2

\* median >= t and median < t for the median (LowerMiddle + UpperMiddle) / 2
MedianGeq(t) == UpperMiddle - t >= t - LowerMiddle
MedianLess(t) == ~MedianGeq(t)

AutoDetected ==
  /\ TraceParsed
  /\ DefaultNamedInput
  /\ options.durationUnit = "auto"
  /\ SampleRows # {}

\* C8: with durationUnit auto the multiplier is 1/1000 for a median >= 1e9,
\* 1 for 1e6 <= median < 1e9, 1000 for 1e3 <= median < 1e6, 1,000,000 for
\* median < 1e3, and every span has startTime and duration equal to the raw
\* value times that multiplier.
C8_AutoUnitMultiplier ==
  AutoDetected =>
    /\ MedianGeq(1000000000) => multiplier = [v |-> 1, e |-> -3]
    /\ (MedianGeq(1000000) /\ MedianLess(1000000000)) => multiplier = [v |-> 1, e |-> 0]
    /\ (MedianGeq(1000) /\ MedianLess(1000000)) => multiplier = [v |-> 1, e |-> 3]
    /\ MedianLess(1000) => multiplier = [v |-> 1, e |-> 6]
    /\ \A i \in DOMAIN spans :
         /\ spans[i].startTime = [v |-> RawColumn("startTime")[i], e |-> multiplier.e]
         /\ spans[i].duration = [v |-> RawColumn("duration")[i], e |-> multiplier.e]

C8_Witness ==
  /\ AutoDetected
  /\ RawColumn("duration") = <<1000000, 999999>>
  /\ multiplier = [v |-> 1, e |-> 3]
  /\ spans[1].startTime = [v |-> 250, e |-> 3]
  /\ spans[1].duration = [v |-> 1000000, e |-> 3]

----------------------------------------------------------------------------
(* Properties of matchLogsToSpans *)

\* the log is among the logs of the output entry made from span i
AttachedTo(log, i) ==
  \E k \in DOMAIN matched : matched[k].ref = i /\ log \in Range(matched[k].logs)

\* timestamp / 1000 lies in [startTime - 1000, startTime + duration + 1000],
\* in nanoseconds
InBufferedWindow(log, i) ==
  /\ (spans[i].startTime.v - 1000) * 1000 <= log.timestamp.v
  /\ log.timestamp.v <= (spans[i].startTime.v + spans[i].duration.v + 1000) * 1000

\* C9: a log whose non-empty spanId equals the spanId of a reachable span is
\* attached to that span, whatever its timestamp and traceId.
C9_ExactIdMatch ==
  pc = "matched" =>
    \A i \in Reachable : \A j \in DOMAIN logs :
      (HasValue(logs[j].spanId) /\ logs[j].spanId = spans[i].spanId) => AttachedTo(logs[j], i)

C9_Witness ==
  /\ pc = "matched"
  /\ \E i \in Reachable : \E j \in DOMAIN logs :
       /\ logs[j].spanId = spans[i].spanId
       /\ logs[j].traceId = Undefined
       /\ ~InBufferedWindow(logs[j], i)
       /\ AttachedTo(logs[j], i)

\* C10: a log without spanId whose traceId equals the span's is attached
\* exactly when timestamp / 1000 lies in [startTime - 1000, startTime +
\* duration + 1000]: the bounds are included, one microsecond beyond is not.
C10_BufferInclusiveWindow ==
  pc = "matched" =>
    \A i \in Reachable : \A j \in DOMAIN logs :
      (~HasValue(logs[j].spanId) /\ HasValue(logs[j].traceId)
         /\ logs[j].traceId = spans[i].traceId) =>
        (AttachedTo(logs[j], i) <=> InBufferedWindow(logs[j], i))

C10_Witness ==
  /\ pc = "matched"
  /\ \E i \in Reachable : \E j \in DOMAIN logs :
       /\ logs[j].spanId = Undefined
       /\ logs[j].traceId = spans[i].traceId
       /\ logs[j].timestamp.v = (spans[i].startTime.v - 1000) * 1000
       /\ AttachedTo(logs[j], i)

\* C11: a log that carries a non-empty spanId is attached to a span only
\* when that spanId equals the span's spanId; the time window never attaches
\* it to another span of the same trace.
C11_SpanIdLogsOnlyByExactId ==
  pc = "matched" =>
    \A i \in Reachable : \A j \in DOMAIN logs :
      (HasValue(logs[j].spanId) /\ AttachedTo(logs[j], i)) =>
        logs[j].spanId = spans[i].spanId

\* the spans the output entries were made from, in output order
MatchedRefs == [k \in DOMAIN matched |-> matched[k].ref]

\* position of span i in the output
MatchedPos(i) == CHOOSE k \in DOMAIN matched : matched[k].ref = i

\* span i together with all its descendants
Subtree(i) == ReachClosure({i}, Len(spans))

\* C12: the output has exactly one entry per span reachable from rootSpan,
\* in pre-order: every span is immediately followed by all its descendants,
\* children in children-list order. Unreachable spans have no entry.
C12_PreOrderOverReachable ==
  pc = "matched" =>
    /\ Len(matched) = Cardinality(Reachable)
    /\ Range(MatchedRefs) = Reachable
    /\ MatchedRefs[1] = trace.rootSpan
    /\ \A k \in DOMAIN matched :
         LET last == k + Cardinality(Subtree(MatchedRefs[k])) - 1
         IN /\ last <= Len(matched)
            /\ {MatchedRefs[m] : m \in k..last} = Subtree(MatchedRefs[k])
            /\ matched[k].span = spans[MatchedRefs[k]]
    /\ \A i \in Reachable : \A a, b \in DOMAIN spans[i].children :
         a < b => MatchedPos(spans[i].children[a]) < MatchedPos(spans[i].children[b])

\* an unreachable span whose exact spanId a log carries, next to a root with
\* a descendant; the log is in no entry
C12_Witness ==
  /\ pc = "matched"
  /\ Cardinality(Reachable) >= 2
  /\ \E i \in DOMAIN spans \ Reachable : \E j \in DOMAIN logs :
       /\ logs[j].spanId = spans[i].spanId
       /\ \A k \in DOMAIN matched : matched[k].logs = <<>>

----------------------------------------------------------------------------
(* Properties of getLogSeverity *)

SeverityDone == pc = "severity"
\* lower-cased text of a log
LowerLine(j) == ToLowerCase(logs[j].line)
LowerLevel(j) ==
  IF logs[j].level = Undefined THEN Undefined ELSE ToLowerCase(logs[j].level)

ErrorClass(j) ==
  \/ LowerLevel(j) \in {"error", "critical", "fatal"}
  \/ \E w \in {"error", "exception", "critical", "fatal", "crit"} : Includes(LowerLine(j), w)
WarningClass(j) == LowerLevel(j) \in {"warn", "warning"} \/ Includes(LowerLine(j), "warn")
InfoClass(j) == LowerLevel(j) = "info"
DebugClass(j) == LowerLevel(j) \in {"debug", "trace"}

\* C13: if any log of the list, at any position, has level error, critical
\* or fatal, or a message containing error, exception, critical, fatal or
\* crit in any case, getLogSeverity returns error.
C13_ErrorHasAbsolutePriority ==
  SeverityDone => ((\E j \in DOMAIN logs : ErrorClass(j)) => severity = "error")

\* an info log first and a log whose message holds "exception" second
C13_Witness ==
  /\ SeverityDone
  /\ Len(logs) = 2
  /\ logs[1].level = "info" /\ ~ErrorClass(1)
  /\ logs[2].line = "contains exception"
  /\ severity = "error"

\* C14: without an error-class log the result is warning if some log is of
\* warning class, else info if some log has level info, else debug if some
\* log has level debug or trace, else info for a non-empty list; the result
\* is none exactly when the list is empty or absent.
C14_RankingBelowError ==
  SeverityDone =>
    /\ (severity = "none") <=> (Len(logs) = 0)
    /\ (Len(logs) > 0 /\ ~\E j \in DOMAIN logs : ErrorClass(j)) =>
         severity = IF \E j \in DOMAIN logs : WarningClass(j) THEN "warning"
                    ELSE IF \E j \in DOMAIN logs : InfoClass(j) THEN "info"
                    ELSE IF \E j \in DOMAIN logs : DebugClass(j) THEN "debug"
                    ELSE "info"

\* an info log followed by a warning makes warning
C14_Witness ==
  /\ SeverityDone
  /\ Len(logs) = 2
  /\ InfoClass(1) /\ ~WarningClass(1)
  /\ WarningClass(2) /\ ~ErrorClass(2)
  /\ severity = "warning"

----------------------------------------------------------------------------
(* Properties of parseLogData *)

\* the frames parseLogData reads rows from, and their rows
LogFrames == {k \in DOMAIN frames : IsLogFrame(frames[k])}
LogRows == UNION {{<<k, i>> : i \in 1..frames[k].length} : k \in LogFrames}

\* the columns of frame k under the default options
RowColumns(k) == LogColumns(frames[k], "traceId", "spanId")
RowTimestamp(r) == frames[r[1]].fields[RowColumns(r[1]).time].values[r[2]]
RowLine(r) == StringOrEmpty(frames[r[1]].fields[RowColumns(r[1]).line].values[r[2]])

\* C15: the returned sequence is in non-decreasing timestamp order across
\* all frames and holds exactly one LogLine per row of every frame that is
\* not skipped.
C15_GloballySortedOnePerRow ==
  pc = "parsed" =>
    /\ \A j \in 1..Len(logs) - 1 : logs[j].timestamp.v <= logs[j + 1].timestamp.v
    /\ Len(logs) = Cardinality(LogRows)
    /\ \A r \in LogRows :
         Cardinality({j \in DOMAIN logs :
                        logs[j].timestamp = Num(RowTimestamp(r)) /\ logs[j].line = RowLine(r)})
           = Cardinality({q \in LogRows :
                        RowTimestamp(q) = RowTimestamp(r) /\ RowLine(q) = RowLine(r)})

\* two log frames whose rows interleave: the first output line comes from a
\* later row than the second
C15_Witness ==
  /\ pc = "parsed"
  /\ Cardinality(LogFrames) = 2
  /\ Len(logs) = 3
  /\ \E r, q \in LogRows :
       /\ r[1] < q[1]
       /\ RowTimestamp(r) > RowTimestamp(q)
       /\ logs[1].timestamp = Num(RowTimestamp(q))

\* the value a row's level is computed from: the level column, or the level
\* label when the column is missing or its value empty
RowLevelSource(r) ==
  LET cols == RowColumns(r[1])
      column == IF cols.level # 0 THEN frames[r[1]].fields[cols.level].values[r[2]]
                ELSE Undefined
      labels == IF cols.labels # 0 THEN frames[r[1]].fields[cols.labels].values[r[2]]
                ELSE <<>>
  IN IF HasValue(column) THEN column
     ELSE IF "level" \in DOMAIN labels THEN labels["level"]
     ELSE Undefined

LevelContains(src, words) == \E w \in words : Includes(ToLowerCase(src), w)

ExpectedLevel(src) ==
  IF ~HasValue(src) THEN "info"
  ELSE IF LevelContains(src, {"err", "fatal", "critical"}) THEN "error"
  ELSE IF LevelContains(src, {"warn"}) THEN "warn"
  ELSE IF LevelContains(src, {"debug"}) THEN "debug"
  ELSE IF LevelContains(src, {"trace"}) THEN "trace"
  ELSE "info"

\* C16: every LogLine has a level among info, warn, error, debug, trace,
\* computed from the level column (or else the level label) by substring
\* tests in any case: err/fatal/critical, then warn, then debug, then trace,
\* else info, also for a missing or empty value.
C16_LevelAlwaysResolved ==
  pc = "parsed" =>
    /\ \A j \in DOMAIN logs : logs[j].level \in {"info", "warn", "error", "debug", "trace"}
    /\ \A r \in LogRows : \E j \in DOMAIN logs :
         /\ logs[j].timestamp = Num(RowTimestamp(r))
         /\ logs[j].line = RowLine(r)
         /\ logs[j].level = ExpectedLevel(RowLevelSource(r))

\* a level value that names two classes resolves to the higher one
C16_Witness ==
  /\ pc = "parsed"
  /\ \E r \in LogRows :
       /\ RowLevelSource(r) = "warn: fatal"
       /\ logs[1].level = "error"

----------------------------------------------------------------------------
(* Properties of the Trace returned by parseTraceData *)

\* spans reachable from the root of the Trace parseTraceData returned
ParsedReachable ==
  IF TraceParsed /\ trace # Null THEN ReachClosure({trace.rootSpan}, Len(spans)) ELSE {}

\* C17: every span reachable from rootSpan has traceId equal to
\* trace.traceId, also when the rows of the frame carry different trace ids.
C17_OneTraceIdAcrossTree ==
  \A i \in ParsedReachable : spans[i].traceId = trace.traceId

----------------------------------------------------------------------------
(* Frame effects of the pipeline stages *)

\* span record s with the children and depth of span record t
WithLinksOf(s, t) == [s EXCEPT !.children = t.children, !.depth = t.depth]

----------------------------------------------------------------------------
(* Root selection without a parentless span *)

SpanIds == {spans[j].spanId : j \in DOMAIN spans}

\* spans whose declared parent is not among the input spanIds
Orphans == {i \in DOMAIN spans : ~Parentless(i) /\ spans[i].parentSpanId \notin SpanIds}

\* C19: when no span is parentless, rootSpan is the first orphan in input
\* order; without an orphan either, rootSpan is the first span of the input.
C19_FirstOrphanElseFirstSpan ==
  (Built /\ ParentlessSpans = {}) =>
    IF Orphans # {}
      THEN trace.rootSpan \in Orphans /\ \A i \in Orphans : trace.rootSpan <= i
      ELSE trace.rootSpan = 1

\* two orphans after a span that is neither parentless nor an orphan: the
\* earlier orphan is the root
C19_Witness ==
  /\ Built
  /\ ParentlessSpans = {}
  /\ Cardinality(Orphans) = 2
  /\ 1 \notin Orphans
  /\ trace.rootSpan = 2

----------------------------------------------------------------------------
(* Depth and reachability, also after a repeated buildTraceTree *)

Annotated == pc \in {"built", "rebuilt"}

\* spans reachable from the root of the Trace the last call returned
AnnotatedReachable ==
  IF Annotated THEN ReachClosure({trace.rootSpan}, Len(spans)) ELSE {}

\* C20: after buildTraceTree a span has a defined depth exactly when it is
\* reachable from rootSpan; unreachable spans stay in the span list and
\* count for startTime, endTime and services. The same holds after
\* buildTraceTree is applied again to records an earlier call annotated.
C20_DepthIffReachable ==
  Annotated =>
    /\ \A i \in DOMAIN spans : (spans[i].depth # NoDepth) <=> (i \in AnnotatedReachable)
    /\ \A i \in DOMAIN spans :
         /\ NumLeq(trace.startTime, spans[i].startTime)
         /\ NumLeq(SpanEnd(spans[i]), trace.endTime)
         /\ spans[i].serviceName \in Range(trace.services)

----------------------------------------------------------------------------
(* Many-to-many matching *)

\* C21: a log without spanId whose traceId equals the trace's is attached
\* to every reachable span whose buffered window contains its timestamp and
\* to no other span; a log with neither spanId nor traceId is attached to
\* no span.
C21_EveryEnclosingSpan ==
  pc = "matched" =>
    \A j \in DOMAIN logs :
      /\ (~HasValue(logs[j].spanId) /\ HasValue(logs[j].traceId)
            /\ logs[j].traceId = trace.traceId) =>
           \A i \in DOMAIN spans :
             AttachedTo(logs[j], i) <=> (i \in Reachable /\ InBufferedWindow(logs[j], i))
      /\ (~HasValue(logs[j].spanId) /\ ~HasValue(logs[j].traceId)) =>
           \A i \in DOMAIN spans : ~AttachedTo(logs[j], i)

----------------------------------------------------------------------------
(* Trace frame selection *)

\* the first frame, in input order, that qualifies as trace frame (0: none)
FirstQualifying ==
  IF QualifyingFrames = {} THEN 0
  ELSE CHOOSE k \in QualifyingFrames : \A j \in QualifyingFrames : k <= j

HasFieldLike(frame, words) ==
  \E n \in FieldNames(frame) : \E w \in words : Includes(ToLowerCase(n), w)

\* the frame has the four required fields
CompleteTraceFrame(frame) ==
  /\ QualifiesAsTrace(frame)
  /\ HasFieldLike(frame, {"starttime", "start_time"})
  /\ HasFieldLike(frame, {"duration"})

\* the trace-id column of a frame that names it traceID or trace_id
TraceIdColumn(frame) ==
  IF ColumnNamed(frame, "traceID") # 0 THEN ColumnNamed(frame, "traceID")
  ELSE ColumnNamed(frame, "trace_id")

\* C22: only the first frame with a trace-id-named and a span-id-named field
\* is used; if it lacks a start-time or a duration field the result is null,
\* even when a later frame has all four; otherwise the spans are its rows.
C22_FirstQualifyingFrameOnly ==
  TraceParsed =>
    IF FirstQualifying = 0 THEN trace = Null
    ELSE LET frame == frames[FirstQualifying]
         IN IF ~CompleteTraceFrame(frame) \/ frame.length = 0 THEN trace = Null
            ELSE /\ trace # Null
                 /\ Len(spans) = frame.length
                 /\ \A i \in DOMAIN spans :
                      spans[i].traceId = frame.fields[TraceIdColumn(frame)].values[i]

\* the first qualifying frame has no start time, the second frame is a
\* complete trace frame with rows, and the result is null
C22_Witness ==
  /\ pc = "traceParsed"
  /\ Len(frames) = 2
  /\ QualifiesAsTrace(frames[1])
  /\ ~HasFieldLike(frames[1], {"starttime", "start_time"})
  /\ frames[1].length > 0
  /\ CompleteTraceFrame(frames[2])
  /\ frames[2].length > 0
  /\ trace = Null

----------------------------------------------------------------------------
(* Skip-and-continue in parseLogData *)

\* frames that contribute no LogLine: no rows, no time field or no field
\* named exactly line, message, body, content or log
SkippedLogFrames == DOMAIN frames \ LogFrames

\* the rows of frame k among the result
LinesOfRow(r) ==
  {j \in DOMAIN logs : logs[j].timestamp = Num(RowTimestamp(r)) /\ logs[j].line = RowLine(r)}

\* C23: a frame with zero rows, without a time field or without a message
\* field contributes no LogLine and does not end the processing: every row
\* of every other frame, before or after it, is in the result.
C23_SkipAndContinue ==
  pc = "parsed" =>
    /\ ~threw
    /\ \A r \in LogRows : LinesOfRow(r) # {}
    /\ \A j \in DOMAIN logs : \E r \in LogRows : j \in LinesOfRow(r)

\* a skipped frame with rows between two log frames whose rows are both in
\* the result
C23_Witness ==
  /\ pc = "parsed"
  /\ Len(frames) = 3
  /\ LogFrames = {1, 3}
  /\ frames[2].length > 0
  /\ Len(logs) = 2
  /\ logs[1].line = RowLine(<<3, 1>>)
  /\ logs[2].line = RowLine(<<1, 1>>)

----------------------------------------------------------------------------
(* Trace and span id of a log line *)

\* the configured names, or the defaults
TraceIdName == IF HasValue(options.lokiTraceIdField) THEN options.lokiTraceIdField ELSE "traceId"
SpanIdName == IF HasValue(options.lokiSpanIdField) THEN options.lokiSpanIdField ELSE "spanId"

ConfiguredColumns(k) == LogColumns(frames[k], TraceIdName, SpanIdName)

\* the labels of a row (none without a labels column)
RowLabels(r) ==
  IF ConfiguredColumns(r[1]).labels # 0
    THEN frames[r[1]].fields[ConfiguredColumns(r[1]).labels].values[r[2]]
    ELSE <<>>

\* the keys of the chain under which the labels hold a non-empty value
FilledKeys(r, keys) ==
  {n \in DOMAIN keys : keys[n] \in DOMAIN RowLabels(r) /\ HasValue(RowLabels(r)[keys[n]])}

\* the id a row must get from column `col` (0: no such column) and the
\* label keys `keys`, Undefined when it must be absent
ExpectedId(r, col, keys) ==
  LET value == IF col # 0 THEN frames[r[1]].fields[col].values[r[2]] ELSE Undefined
      filled == FilledKeys(r, keys)
  IN IF HasValue(value) THEN value
     ELSE IF filled # {} THEN RowLabels(r)[keys[CHOOSE n \in filled : \A q \in filled : n <= q]]
     ELSE Undefined

SameId(actual, expected) ==
  IF HasValue(expected) THEN actual = expected ELSE ~HasValue(actual)

\* C24: the traceId (spanId) of a log row is the value of the dedicated
\* column when that column is resolved and the value is non-empty; else the
\* first non-empty label among trace_id, traceId, traceid and the configured
\* name (span_id, spanId, spanid, configured name); else it is absent.
C24_IdFallbackChain ==
  pc = "parsed" =>
    \A r \in LogRows : \E j \in LinesOfRow(r) :
      /\ SameId(logs[j].traceId,
                ExpectedId(r, ConfiguredColumns(r[1]).traceId,
                           <<"trace_id", "traceId", "traceid", TraceIdName>>))
      /\ SameId(logs[j].spanId,
                ExpectedId(r, ConfiguredColumns(r[1]).spanId,
                           <<"span_id", "spanId", "spanid", SpanIdName>>))

\* an empty trace-id column next to labels whose first key is empty too:
\* the id comes from a later key; the filled span-id column beats the labels
C24_Witness ==
  /\ pc = "parsed"
  /\ Len(logs) = 1
  /\ ConfiguredColumns(1).traceId # 0
  /\ frames[1].fields[ConfiguredColumns(1).traceId].values[1] = ""
  /\ RowLabels(<<1, 1>>) = ("trace_id" :> "" @@ "traceid" :> "L3" @@ "span_id" :> "" @@ "spanid" :> "P3")
  /\ logs[1].traceId = "L3"
  /\ logs[1].spanId = "s1"

----------------------------------------------------------------------------
(* Column order of the trace frame *)

\* frames[1] has a column of its own for every attribute of a span
FullNamedInput ==
  /\ Len(frames) = 1
  /\ {"traceID", "spanID", "parentSpanID", "operationName", "serviceName",
       "startTime", "duration"} \subseteq FieldNames(frames[1])

\* C25: for a trace frame with a span-id, a parent-span-id, an operation-name
\* and a service-name column, every attribute of every span comes from its
\* own column, whatever the order of the columns.
C25_ColumnOrderIndependent ==
  (TraceParsed /\ FullNamedInput) =>
    /\ Len(spans) = frames[1].length
    /\ \A i \in DOMAIN spans :
         /\ spans[i].spanId = RawColumn("spanID")[i]
         /\ spans[i].parentSpanId = RawColumn("parentSpanID")[i]
         /\ spans[i].operationName = RawColumn("operationName")[i]
         /\ spans[i].serviceName = RawColumn("serviceName")[i]

----------------------------------------------------------------------------
(* The colour cache *)

\* C26: the cache is append-only and stable: a cached name keeps its colour
\* and every later call with it returns that colour; no entry is removed or
\* changed; a new name gets the palette colour at index (number of names
\* cached before) mod 10.
C26_ColourCacheAppendOnly ==
  [][/\ Len(serviceColorMap') >= Len(serviceColorMap)
     /\ SubSeq(serviceColorMap', 1, Len(serviceColorMap)) = serviceColorMap
     /\ MapHas(serviceColorMap, colorCall'.name) =>
          /\ serviceColorMap' = serviceColorMap
          /\ colorCall'.color = MapGet(serviceColorMap, colorCall'.name)
     /\ ~MapHas(serviceColorMap, colorCall'.name) =>
          /\ serviceColorMap' = Append(serviceColorMap,
                                       [name |-> colorCall'.name, color |-> colorCall'.color])
          /\ colorCall'.color = SERVICE_COLORS[(Len(serviceColorMap) % 10) + 1]]_vars

\* the eleventh name got the first palette colour again, and a later call
\* with the first name still returns that name's colour
C26_Witness ==
  /\ Len(serviceColorMap) >= 11
  /\ serviceColorMap[11].color = SERVICE_COLORS[1]
  /\ colorCall.name = serviceColorMap[1].name
  /\ colorCall.color = SERVICE_COLORS[1]

----------------------------------------------------------------------------
(* Properties of the expanded set of TraceTimeline *)

TimelineShown == pc = "shown"

\* spans below some span of the tree that is not expanded
HiddenByCollapsedAncestor ==
  { i \in DOMAIN spans :
      \E j \in DOMAIN spans : j # i /\ i \in Subtree(j) /\ spans[j].spanId \notin expandedSpans }

\* C27: after initialisation and any sequence of toggles of rows on screen,
\* no span hidden by a collapsed ancestor is in the expanded set.
C27_HiddenSpansStayCollapsed ==
  TimelineShown => \A i \in HiddenByCollapsedAncestor : spans[i].spanId \notin expandedSpans

\* spanIds of the listed spans that carry at least one log
ListedWithLogs ==
  {matched[k].span.spanId : k \in {m \in DOMAIN matched : matched[m].logs # <<>>}}

\* the set a fresh initialisation yields for the trace on screen
FreshExpanded ==
  {spans[trace.rootSpan].spanId} \cup (IF collapsedByDefault THEN {} ELSE ListedWithLogs)

\* a step in which new props reach the mounted component
RefreshStep ==
  /\ TimelineShown
  /\ TimelineShown'
  /\ <<spans, trace, logs, collapsedByDefault>>' # <<spans, trace, logs, collapsedByDefault>>

\* C28: a refresh that delivers a trace with the traceId of the previous one
\* leaves expandedSpans unchanged; one that delivers another traceId sets it
\* to {root} if collapsedByDefault, else to the root plus every listed span
\* with at least one log.
C28_ExpandedAcrossRefreshes ==
  [][RefreshStep =>
       IF trace'.traceId = trace.traceId
         THEN expandedSpans' = expandedSpans
         ELSE expandedSpans' = FreshExpanded']_vars

\* a refresh of the same trace brought fewer spans and the expanded set still
\* holds the id of a span that is gone
C28_Witness ==
  /\ TimelineShown
  /\ Len(spans) < 3
  /\ "c" \in expandedSpans
  /\ prevTraceIdRef = trace.traceId

----------------------------------------------------------------------------
(* Shape of the children lists *)

\* the places <<j, k>> at which span i stands in a children list
ChildSlots(i) ==
  UNION { { <<j, k>> : k \in {m \in DOMAIN spans[j].children : spans[j].children[m] = i} } :
          j \in DOMAIN spans }

RootIsParentlessOrOrphan ==
  Parentless(trace.rootSpan) \/ trace.rootSpan \in Orphans

\* C29: after buildTraceTree every span stands at most once in at most one
\* children list, and in one exactly when its parentSpanId is non-empty and is
\* the spanId of an input span; with a parentless or orphan root the output of
\* matchLogsToSpans (the flattened tree) has no span twice and at most
\* spans.length entries.
C29_EachSpanLinkedOnce ==
  /\ Built =>
       \A i \in DOMAIN spans :
         /\ Cardinality(ChildSlots(i)) <= 1
         /\ ChildSlots(i) # {} <=> (~Parentless(i) /\ spans[i].parentSpanId \in SpanIds)
  /\ (pc = "matched" /\ RootIsParentlessOrOrphan) =>
       /\ \A k, m \in DOMAIN matched : matched[k].ref = matched[m].ref => k = m
       /\ Len(matched) <= Len(spans)

\* a tree with two spans of one id and a third naming that id as parent, built
\* and flattened from a parentless root
C29_Witness ==
  /\ pc = "matched"
  /\ RootIsParentlessOrOrphan
  /\ \E i, j, c \in DOMAIN spans :
       /\ i # j
       /\ spans[i].spanId = spans[j].spanId
       /\ ChildSlots(c) # {}
       /\ spans[c].parentSpanId = spans[i].spanId
  /\ Len(matched) > 1

\* spans that can be reached from one of their own children
OnChildCycle == {i \in DOMAIN spans : i \in ReachClosure(ChildrenOf(i), Len(spans))}

\* C30: when the input has a parentless span or an orphan, neither the depth
\* assignment of buildTraceTree nor flattenSpans runs out of stack, and no
\* span reachable from rootSpan lies on a cycle of children links, whatever
\* parent cycles the other spans form.
C30_TreeWalksTerminate ==
  (ParentlessSpans # {} \/ Orphans # {}) =>
    /\ pc # "threw"
    /\ Built => Reachable \cap OnChildCycle = {}

\* a trace built and flattened from a parentless or orphan root while other
\* spans of the input form a parent cycle
C30_Witness ==
  /\ pc = "matched"
  /\ ParentlessSpans # {} \/ Orphans # {}
  /\ OnChildCycle # {}
  /\ Len(matched) > 0

====
